---- MODULE Spec2Model ----
(***************************************************************************)
(* ContainerPulse: the container update engine.                            *)
(*                                                                         *)
(* containerpulse-updater.sh (document_containers, update_containers, the  *)
(* main loop), DockerService.updateContainer of the web interface, and the *)
(* container engine they both talk to.                                     *)
(*                                                                         *)
(* Texts are sequences of lexemes: a separator character (" ", "=", "/",   *)
(* "_", "-", ".", ":", "'", the double quote written "dq") is a lexeme of  *)
(* its own, every maximal run of other characters is one lexeme.           *)
(***************************************************************************)
EXTENDS Integers, Sequences, FiniteSets, TLC

\* ---------------------------------------------------------------- bounds
MaxCycles == 2      \* cycles of the main loop started by all script processes
MaxRequests == 1    \* updateContainer requests served by the web process
MaxFaults == 1      \* engine calls and file writes that fail of themselves
MaxSelfUpdates == 1 \* calls of handle_self_update

\* ------------------------------------------------------- static universe
SelfName == "containerpulse"
Names == {"web", "db", "containerpulse", "app", "cache", "note", "batch"}
Procs == {"sched", "manual"}
NoName == "-"

Range(s) == {s[i] : i \in DOMAIN s}

\* image reference configured for each container of the host
ImageOf(n) ==
  CASE n = "web" -> "nginx:latest"
    [] n = "batch" -> "nginx:latest"
    [] n = "db" -> "postgres:15"
    [] n = "containerpulse" -> "harrisyn/containerpulse:latest"
    [] n = "app" -> "my_app"
    [] n = "cache" -> "redis:7"
    [] OTHER -> "busybox"
Refs == {ImageOf(n) : n \in Names}

\* the lexemes of an image reference
RefText(r) ==
  CASE r = "nginx:latest" -> <<"nginx", ":", "latest">>
    [] r = "postgres:15" -> <<"postgres", ":", "15">>
    [] r = "harrisyn/containerpulse:latest" ->
         <<"harrisyn", "/", "containerpulse", ":", "latest">>
    [] r = "my_app" -> <<"my", "_", "app">>
    [] r = "redis:7" -> <<"redis", ":", "7">>
    [] OTHER -> <<"busybox">>

Lbl(k, v) == [key |-> k, value |-> v]

\* labels each container of the host was created with (in JSON key order)
LabelsOf(n) ==
  CASE n = "web" -> <<Lbl("auto-update", <<"true">>)>>
    [] n = "db" -> <<Lbl("auto-update", <<"true">>),
                     Lbl("update-approach", <<"notify">>)>>
    [] n = "containerpulse" -> <<Lbl("auto-update", <<"true">>)>>
    [] n = "app" -> <<Lbl("com.centurylinklabs.watchtower.enable", <<"true">>)>>
    [] n = "cache" -> <<Lbl("auto-update", <<"false">>)>>
    [] n = "note" ->
         <<Lbl("description", <<"set", " ", "auto-update", "=", "true">>)>>
    [] OTHER -> <<Lbl("com.your.auto-update", <<"true">>)>>

\* creation order of the containers of the host (engine-assigned serials)
SerialOf(n) ==
  CASE n = "batch" -> 1 [] n = "note" -> 2 [] n = "cache" -> 3
    [] n = "app" -> 4 [] n = "containerpulse" -> 5 [] n = "db" -> 6
    [] OTHER -> 7

\* ------------------------------------------------------------ identities
\* the engine knows a container by its full id; `docker ps -q` prints the
\* truncated form of it
FullId(k) == [serial |-> k, form |-> "full"]
ShortId(k) == [serial |-> k, form |-> "short"]
EmptyId == [serial |-> 0, form |-> "empty"]
ImageId(r, v) == [ref |-> r, version |-> v]
NoImage == ImageId("", 0)

NoRestart == [Name |-> <<"no">>, MaximumRetryCount |-> <<"0">>]
Absent == [exists |-> FALSE, running |-> FALSE, serial |-> 0,
           image |-> NoImage, labels |-> <<>>, env |-> <<>>,
           mounts |-> <<>>, ports |-> <<>>, restartPolicy |-> NoRestart]

\* --------------------------------------------------------------- texts
RECURSIVE SplitWords(_, _, _)
SplitWords(t, cur, acc) ==
  IF t = <<>> THEN (IF cur = <<>> THEN acc ELSE Append(acc, cur))
  ELSE IF Head(t) = " "
       THEN SplitWords(Tail(t), <<>>,
                       IF cur = <<>> THEN acc ELSE Append(acc, cur))
       ELSE SplitWords(Tail(t), Append(cur, Head(t)), acc)

\* unquoted expansion `for x in $text`: split at whitespace
WordSplit(t) == SplitWords(t, <<>>, <<>>)

RECURSIVE Flatten(_)
Flatten(ss) == IF ss = <<>> THEN <<>> ELSE Head(ss) \o Flatten(Tail(ss))

\* jq -r 'to_entries[] | "\(.key)=\(.value)"' followed by `for label in`
LabelLine(l) == <<l.key, "=">> \o l.value
LabelWords(labels) ==
  Flatten([i \in DOMAIN labels |-> WordSplit(LabelLine(labels[i]))])

\* .labels[k] of jq and labels[k] of JavaScript: the value or null
NullText == <<"null">>
LabelValue(labels, k) ==
  IF \E i \in DOMAIN labels : labels[i].key = k
  THEN labels[CHOOSE i \in DOMAIN labels :
                /\ labels[i].key = k
                /\ \A j \in DOMAIN labels : labels[j].key = k => j <= i].value
  ELSE NullText

\* the case patterns of document_containers
DocPatterns == {<<"auto-update", "=", "true">>,
                <<"com.your.auto-update", "=", "true">>,
                <<"com.github.containrrr.watchtower.enable", "=", "true">>,
                <<"com.centurylinklabs.watchtower.enable", "=", "true">>}

DocAutoUpdate(labels) == \E w \in Range(LabelWords(labels)) : w \in DocPatterns

\* the select dropped: every record of the inventory is taken
JqSelectAutoUpdate_Any(labels) == TRUE

\* the jq select of update_containers
JqSelectAutoUpdate(labels) ==
  \/ LabelValue(labels, "com.your.auto-update") = <<"true">>
  \/ LabelValue(labels, "auto-update") = <<"true">>
  \/ LabelValue(labels, "com.github.containrrr.watchtower.enable") = <<"true">>
  \/ LabelValue(labels, "com.centurylinklabs.watchtower.enable") = <<"true">>

\* DockerService.hasAutoUpdateLabel
updateLabels == {"auto-update", "com.your.auto-update",
                 "com.github.containrrr.watchtower.enable",
                 "com.centurylinklabs.watchtower.enable"}
hasAutoUpdateLabel(labels) ==
  \E label \in updateLabels : LabelValue(labels, label) = <<"true">>

\* is_locally_built_image: [[ "$image_name" =~ ^[^/]*[_-][^/]*$ ]], or no
\* "." and no "/" and some "_" or "-"
\* =~ ^[^/]*[_-][^/]*$ : a split into a prefix without "/", one "_" or "-",
\* and a suffix without "/"
MatchesComposeName(image_name) ==
  \E i \in DOMAIN image_name :
    /\ image_name[i] \in {"_", "-"}
    /\ \A j \in 1..(i - 1) : image_name[j] # "/"
    /\ \A j \in (i + 1)..Len(image_name) : image_name[j] # "/"
\* =~ [set] : some character of the set occurs
MatchesAny(image_name, set) == \E i \in DOMAIN image_name : image_name[i] \in set

\* the first pattern without its anchors
is_locally_built_image_Unanchored(image_name) ==
  \/ MatchesAny(image_name, {"_", "-"})
  \/ (~MatchesAny(image_name, {".", "/"}) /\ MatchesAny(image_name, {"_", "-"}))

is_locally_built_image(image_name) ==
  \/ MatchesComposeName(image_name)
  \/ (~MatchesAny(image_name, {".", "/"}) /\ MatchesAny(image_name, {"_", "-"}))

\* ------------------------------------------- creation parameter synthesis
\* (update_containers builds the text of a `docker create` command from
\* container_data and hands it to eval)
Sp == <<" ">>
DQuoted(t) == <<"dq">> \o t \o <<"dq">>

\* jq @sh on a string without quote characters
ShQuote(t) == <<"'">> \o t \o <<"'">>

\* cut -d d -f k (a line without the delimiter is printed whole)
RECURSIVE CutFields(_, _, _, _)
CutFields(t, d, cur, acc) ==
  IF t = <<>> THEN Append(acc, cur)
  ELSE IF Head(t) = d THEN CutFields(Tail(t), d, <<>>, Append(acc, cur))
       ELSE CutFields(Tail(t), d, Append(cur, Head(t)), acc)
Cut(t, d, k) ==
  LET fs == CutFields(t, d, <<>>, <<>>) IN
  IF d \notin Range(t) THEN t ELSE IF k <= Len(fs) THEN fs[k] ELSE <<>>

\* one `-p` per word of the bindings of one port key
PortWords(p) ==
  IF p.bindings = <<>> THEN <<>>    \* null is read as []
  ELSE Flatten([i \in DOMAIN p.bindings |->
         WordSplit(p.bindings[i].HostIp \o <<":">> \o p.bindings[i].HostPort)])
PortOptions(p) ==
  LET container_port == Cut(p.port, "/", 1)
      protocol == Cut(p.port, "/", 2)
      bs == PortWords(p) IN
  IF p.port = <<"null">> THEN <<>>
  ELSE Flatten([i \in DOMAIN bs |->
         IF bs[i] = <<":">>
         THEN Sp \o <<"-p">> \o Sp \o container_port \o <<"/">> \o protocol
         ELSE Sp \o <<"-p">> \o Sp \o bs[i] \o <<":">> \o container_port
                 \o <<"/">> \o protocol])

VolumeWords(mounts) ==
  Flatten([i \in DOMAIN mounts |->
    WordSplit(mounts[i].Source \o <<":">> \o mounts[i].Destination
              \o <<":">> \o mounts[i].Mode)])
EnvWords(envs) ==
  LET quoted == [i \in DOMAIN envs |-> ShQuote(envs[i])] IN
  Flatten([i \in DOMAIN quoted |-> WordSplit(quoted[i])])

RestartOption(rp) ==
  IF rp.Name # <<"null">> /\ rp.Name # <<"no">>
  THEN IF rp.MaximumRetryCount # <<"0">> /\ rp.Name = <<"on-failure">>
       THEN Sp \o <<"--restart", "=">>
               \o DQuoted(rp.Name \o <<":">> \o rp.MaximumRetryCount)
       ELSE Sp \o <<"--restart", "=">> \o DQuoted(rp.Name)
  ELSE <<>>

\* one attachment of .NetworkSettings.Networks: the address the container
\* has on the network, and whether it was configured (IPAMConfig) or
\* assigned by the engine
Attachment(net, ip, static) == [name |-> net, IPAddress |-> ip, static |-> static]

\* the network loop: --network for each key but a bridge that is not alone,
\* --ip when .network[net].IPAddress is neither empty nor null
NetworkOptions(network) ==
  Flatten([i \in DOMAIN network |->
    IF network[i].name = <<"bridge">> /\ Len(network) > 1 THEN <<>>
    ELSE Sp \o <<"--network", "=">> \o DQuoted(network[i].name)
         \o IF network[i].IPAddress # <<>> /\ network[i].IPAddress # <<"null">>
            THEN Sp \o <<"--ip", "=">> \o DQuoted(network[i].IPAddress)
            ELSE <<>>])

\* cmd=$(jq -r '.command | .[]?'); for arg in $cmd
CommandWords(command) ==
  Flatten([i \in DOMAIN command |-> WordSplit(command[i])])

\* the record's hostConfig is the default one (not privileged, no
\* capabilities, DNS or extra hosts, json-file logging): those options add
\* nothing to the text
create_command(container_name, data, image_name) ==
  LET vols == VolumeWords(data.mounts)
      envs == EnvWords(data.env)
      lbls == LabelWords(data.labels)
      cmd == CommandWords(data.command) IN
  <<"docker", " ", "create">>
  \o Sp \o <<"--name">> \o Sp \o DQuoted(container_name)
  \o NetworkOptions(data.network)
  \o Flatten([i \in DOMAIN data.ports |-> PortOptions(data.ports[i])])
  \o Flatten([i \in DOMAIN vols |-> Sp \o <<"-v">> \o Sp \o DQuoted(vols[i])])
  \o Flatten([i \in DOMAIN envs |-> Sp \o <<"-e">> \o Sp \o envs[i]])
  \o Flatten([i \in DOMAIN lbls |-> Sp \o <<"--label">> \o Sp \o DQuoted(lbls[i])])
  \o RestartOption(data.restartPolicy)
  \o Sp \o DQuoted(image_name)
  \o Flatten([i \in DOMAIN cmd |-> Sp \o cmd[i]])

\* eval: the shell splits the text into arguments, honouring both quotes
SyntaxError == <<<<"syntax-error">>>>
\* one character read by the shell: q is the quote that is open
ShellStep(st, h) ==
  IF h = "'" /\ st.q = "none" THEN [st EXCEPT !.q = "sq", !.has = TRUE]
  ELSE IF h = "'" /\ st.q = "sq" THEN [st EXCEPT !.q = "none"]
  ELSE IF h = "dq" /\ st.q = "none" THEN [st EXCEPT !.q = "dq", !.has = TRUE]
  ELSE IF h = "dq" /\ st.q = "dq" THEN [st EXCEPT !.q = "none"]
  ELSE IF h = " " /\ st.q = "none"
       THEN [q |-> "none", cur |-> <<>>, has |-> FALSE,
             acc |-> IF st.has THEN Append(st.acc, st.cur) ELSE st.acc]
       ELSE [st EXCEPT !.cur = Append(@, h), !.has = TRUE]
\* the characters lo..hi of t read in order, starting in state st
RECURSIVE ShellWords(_, _, _, _)
ShellWords(t, lo, hi, st) ==
  IF lo > hi THEN st
  ELSE IF lo = hi THEN ShellStep(st, t[lo])
  ELSE LET mid == (lo + hi) \div 2
           left == ShellWords(t, lo, mid, st)
       IN IF left.has \in BOOLEAN THEN ShellWords(t, mid + 1, hi, left) ELSE st
ShellEval(t) ==
  LET end == ShellWords(t, 1, Len(t),
                        [q |-> "none", cur |-> <<>>, has |-> FALSE, acc |-> <<>>])
  IN IF end.q # "none" THEN SyntaxError
     ELSE IF end.has THEN Append(end.acc, end.cur) ELSE end.acc

\* the engine's reading of the arguments of `docker create`
NoParams == [ok |-> FALSE, name |-> <<>>, ports |-> <<>>, volumes |-> <<>>,
             env |-> <<>>, labels |-> <<>>, restart |-> <<"no">>,
             image |-> <<>>, cmd |-> <<>>, networks |-> <<>>, ips |-> <<>>,
             entrypoint |-> <<>>]
ParseLabel(w) ==
  IF w = <<>> THEN Lbl("", <<>>)
  ELSE IF Head(w) = "=" THEN Lbl("", Tail(w))
  ELSE IF Len(w) >= 2 /\ w[2] = "=" THEN Lbl(w[1], SubSeq(w, 3, Len(w)))
  ELSE Lbl(w[1], Tail(w))
\* a later --label of the same key replaces the earlier one
PutLabel(labels, l) ==
  IF \E i \in DOMAIN labels : labels[i].key = l.key
  THEN [i \in DOMAIN labels |-> IF labels[i].key = l.key THEN l ELSE labels[i]]
  ELSE Append(labels, l)
RECURSIVE ParseOptions(_, _)
ParseOptions(args, ps) ==
  IF args = <<>> THEN ps    \* no image named: the engine rejects the call
  ELSE LET a == Head(args) r == Tail(args) IN
       IF a \in {<<"--name">>, <<"-p">>, <<"-v">>, <<"-e">>, <<"--label">>,
                 <<"--entrypoint">>}
       THEN IF r = <<>> THEN ps
            ELSE LET v == Head(r) IN
                 ParseOptions(Tail(r),
                   CASE a = <<"--name">> -> [ps EXCEPT !.name = v]
                     [] a = <<"-p">> -> [ps EXCEPT !.ports = Append(@, v)]
                     [] a = <<"-v">> -> [ps EXCEPT !.volumes = Append(@, v)]
                     [] a = <<"-e">> -> [ps EXCEPT !.env = Append(@, v)]
                     [] a = <<"--entrypoint">> -> [ps EXCEPT !.entrypoint = <<v>>]
                     [] OTHER -> [ps EXCEPT !.labels = PutLabel(@, ParseLabel(v))])
       ELSE IF Len(a) >= 2 /\ a[1] = "--restart" /\ a[2] = "="
       THEN ParseOptions(r, [ps EXCEPT !.restart = SubSeq(a, 3, Len(a))])
       ELSE IF Len(a) >= 2 /\ a[1] = "--network" /\ a[2] = "="
       THEN ParseOptions(r, [ps EXCEPT !.networks = Append(@, SubSeq(a, 3, Len(a)))])
       ELSE IF Len(a) >= 2 /\ a[1] = "--ip" /\ a[2] = "="
       THEN ParseOptions(r, [ps EXCEPT !.ips = Append(@, SubSeq(a, 3, Len(a)))])
       ELSE [ps EXCEPT !.ok = TRUE, !.image = a, !.cmd = r]
DockerCreateParse(args) ==
  IF args = SyntaxError \/ Len(args) < 2 THEN NoParams
  ELSE ParseOptions(SubSeq(args, 3, Len(args)), NoParams)

\* the parameters the engine receives for a ContainerRecord
SynthesizedParams(container_name, data, image_name) ==
  DockerCreateParse(ShellEval(create_command(container_name, data, image_name)))

\* ------------------------------------------------- the host at start-up
Binding(ip, hp) == [HostIp |-> ip, HostPort |-> hp]
Port(p, bs) == [port |-> p, bindings |-> bs]
Mount(s, d, m) == [Source |-> s, Destination |-> d, Mode |-> m]

InitialContainer(n) ==
  [exists |-> TRUE, running |-> (n # "batch"), serial |-> SerialOf(n),
   image |-> ImageId(ImageOf(n), 1), labels |-> LabelsOf(n),
   env |-> IF n = "web" THEN <<<<"TZ", "=", "UTC">>>> ELSE <<>>,
   mounts |-> IF n = "web"
              THEN <<Mount(<<"/srv/www">>, <<"/usr/share/nginx/html">>, <<"ro">>)>>
              ELSE <<>>,
   ports |-> IF n = "web"
             THEN <<Port(<<"80", "/", "tcp">>, <<Binding(<<"0.0.0.0">>, <<"8080">>)>>)>>
             ELSE <<>>,
   restartPolicy |-> IF n = SelfName
                     THEN [Name |-> <<"unless-stopped">>, MaximumRetryCount |-> <<"0">>]
                     ELSE IF n = "web"
                          THEN [Name |-> <<"always">>, MaximumRetryCount |-> <<"0">>]
                          ELSE NoRestart]

\* settings read from the environment when the script starts
Settings(enabled, to, sendmail, smtp, cleanup) ==
  [EMAIL_ENABLED |-> enabled, EMAIL_TO |-> to, sendmail |-> sendmail,
   smtp |-> smtp, CLEANUP_OLD_IMAGES |-> cleanup]
Defaults == Settings(FALSE, FALSE, FALSE, FALSE, FALSE)

\* a registry that holds a new version of exactly the references in S
RegistryWith(S) == [r \in Refs |-> IF r \in S THEN 2 ELSE 1]

\* the hosts the model starts from: what the registry has to offer and how
\* the updater is configured
Scenario(newRefs, settings) == [registry |-> RegistryWith(newRefs), env |-> settings]
Scenarios ==
  {Scenario({}, Defaults),
   Scenario({"nginx:latest", "postgres:15", "harrisyn/containerpulse:latest"},
            Defaults),
   Scenario({"nginx:latest", "postgres:15", "harrisyn/containerpulse:latest"},
            Settings(TRUE, TRUE, TRUE, FALSE, FALSE)),     \* sendmail installed
   Scenario({"nginx:latest", "postgres:15"},
            Settings(TRUE, TRUE, FALSE, TRUE, FALSE)),     \* curl and SMTP account
   Scenario({"nginx:latest", "postgres:15"},
            Settings(TRUE, TRUE, FALSE, FALSE, TRUE)),     \* no transport; cleanup
   Scenario({"postgres:15"},
            Settings(TRUE, FALSE, TRUE, FALSE, FALSE))}    \* no recipient

\* ------------------------------------------------------------ inventory
StripSlash(t) == IF t # <<>> /\ Head(t) = "/" THEN Tail(t) ELSE t

\* the record document_containers writes for one container
ContainerRecord(n, c) ==
  [id |-> FullId(c.serial), name |-> <<"/", n>>,
   image |-> RefText(c.image.ref), imageId |-> c.image,
   labels |-> c.labels, env |-> c.env, mounts |-> c.mounts,
   ports |-> c.ports, restartPolicy |-> c.restartPolicy,
   network |-> <<>>, command |-> <<>>, entrypoint |-> <<>>]

\* docker ps -q: the running containers, newest first
RECURSIVE NewestFirst(_, _)
NewestFirst(cs, S) ==
  IF S = {} THEN <<>>
  ELSE LET m == CHOOSE n \in S : \A k \in S : cs[k].serial <= cs[n].serial
       IN <<m>> \o NewestFirst(cs, S \ {m})
DockerPs(cs) == NewestFirst(cs, {n \in Names : cs[n].exists /\ cs[n].running})

\* what sed leaves of /proc/self/cgroup: the full id of the own container
\* (cgroup v1) or nothing (no line names docker)
SelfIdReadings(cs) == {FullId(cs[SelfName].serial), EmptyId}

RECURSIVE KeepOnly(_, _, _)
KeepOnly(s, keep, i) ==
  IF i > Len(s) THEN <<>>
  ELSE (IF s[i] \in keep THEN <<s[i]>> ELSE <<>>) \o KeepOnly(s, keep, i + 1)

document_containers(cs, self_id) ==
  LET listed == DockerPs(cs)
      kept == {n \in Names : /\ cs[n].exists
                             /\ ShortId(cs[n].serial) # self_id
                             /\ DocAutoUpdate(cs[n].labels)}
      names == KeepOnly(listed, kept, 1)
  IN [i \in DOMAIN names |-> ContainerRecord(names[i], cs[names[i]])]

\* jq select(...) | .name, sed 's/^\///'
auto_update_containers(inv) ==
  LET idxs == {i \in DOMAIN inv : JqSelectAutoUpdate(inv[i].labels)}
      pick == KeepOnly([i \in DOMAIN inv |-> i], idxs, 1)
  IN [j \in DOMAIN pick |-> StripSlash(inv[pick[j]].name)]

NoData == [id |-> EmptyId, name |-> <<>>, image |-> <<>>,
           imageId |-> NoImage, labels |-> <<>>, env |-> <<>>,
           mounts |-> <<>>, ports |-> <<>>, restartPolicy |-> NoRestart,
           network |-> <<>>, command |-> <<>>, entrypoint |-> <<>>]

\* jq select(.name == "/name") on the inventory file
InventoryLookup(inv, nameText) ==
  IF \E i \in DOMAIN inv : inv[i].name = <<"/">> \o nameText
  THEN inv[CHOOSE i \in DOMAIN inv : inv[i].name = <<"/">> \o nameText]
  ELSE NoData

\* the container a name given to the engine denotes
Named(t) == IF Len(t) = 1 /\ t[1] \in Names THEN t[1] ELSE NoName
RefOf(t) == IF \E r \in Refs : RefText(r) = t
            THEN CHOOSE r \in Refs : RefText(r) = t ELSE ""

\* ------------------------------------------------------------- state
VARIABLES
  containers,  \* engine: name -> container (or Absent)
  nextSerial,  \* engine: serial of the next container created
  localTag,    \* engine: image reference -> version it resolves to locally
  registry,    \* registry: image reference -> version a pull delivers
  images,      \* engine: image ids present locally
  env,         \* environment settings of the updater container
  inventory,   \* inventory.json: sequence of ContainerRecords
  backups,     \* pre-update-*.json files: set of [name, data]
  pc,          \* script process -> position
  cycle,       \* script process -> cycles started
  list,        \* script process -> auto_update_containers
  idx,         \* script process -> position in list
  cdata,       \* script process -> container_data
  newImg,      \* script process -> new_image_id
  newCid,      \* script process -> container_id returned by create
  web,         \* the updateContainer request being served
  requests,    \* requests accepted so far
  ops,         \* history: script process -> engine calls of this cycle
  webOps,      \* history: engine calls issued by the web process itself
  outcome,     \* history: script process -> result per list position
  notes,       \* history: notifications emitted
  backupOk,    \* history: script process -> names backed up this cycle
  faults,      \* history: calls that failed of themselves so far
  record,      \* synthesis on its own: the ContainerRecord given
  params,      \* synthesis on its own: the parameters the engine received
  updater,     \* own lifecycle: the main process of the updater container
  deferred,    \* own lifecycle: the restart script handle_self_update launched
  files,       \* own lifecycle: which of the files looked at exist
  wd,          \* own lifecycle: the watchdog (position, last poll, its calls)
  selfUpdates, \* own lifecycle: calls of handle_self_update so far
  dep,         \* deploy.sh: the run of deploy (position, locals, history)
  dhost,       \* deploy.sh: compose file and deployment-backups of the host
  sig,         \* USR1 signals sent to the updater process
  invFile,     \* the inventory file as a reader of the volume finds it
  writer,      \* document_containers writing the inventory file
  reader,      \* DockerService.getInventoryContainers reading it
  stat,        \* the web interface computing update statuses
  probe        \* an input handed to a function of the program, and its results

vars == <<containers, nextSerial, localTag, registry, images, env, inventory,
          backups, pc, cycle, list, idx, cdata, newImg, newCid, web,
          requests, ops, webOps, outcome, notes, backupOk, faults, record,
          params, updater, deferred, files, wd, selfUpdates, dep, dhost, sig,
          invFile, writer, reader, stat, probe>>

synthVars == <<record, params>>
lifeVars == <<updater, deferred, files, wd, selfUpdates>>
deployVars == <<dep, dhost>>
sigVars == <<sig>>
fileVars == <<invFile, writer, reader>>
webVars == <<stat, probe>>
auxVars == <<deployVars, sigVars, fileVars, webVars>>
sideVars == <<synthVars, lifeVars, auxVars>>
engineVars == <<containers, nextSerial, localTag, images>>
histVars == <<ops, webOps, outcome, notes, backupOk, faults>>

\* names a web request may carry
ReqNames == {<<"web">>, <<"db">>, <<"note">>, <<"ghost">>}

NoWeb == [pc |-> "idle", name |-> <<>>, rec |-> NoData, result |-> "none"]

\* the updater at rest
UpdaterInitFrom(scenarios, start, engines) ==
  /\ containers \in engines
  /\ nextSerial = 8
  /\ localTag = [r \in Refs |-> 1]
  /\ \E sc \in scenarios : registry = sc.registry /\ env = sc.env
  /\ images = {ImageId(r, 1) : r \in Refs}
  /\ inventory = <<>>
  /\ backups = {}
  /\ pc = [p \in Procs |-> IF p = "sched" THEN start ELSE "idle"]
  /\ cycle = [p \in Procs |-> IF p = "sched" /\ start = "doc" THEN 1 ELSE 0]
  /\ list = [p \in Procs |-> <<>>]
  /\ idx = [p \in Procs |-> 1]
  /\ cdata = [p \in Procs |-> NoData]
  /\ newImg = [p \in Procs |-> NoImage]
  /\ newCid = [p \in Procs |-> EmptyId]
  /\ web = NoWeb
  /\ requests = 0
  /\ ops = [p \in Procs |-> {}]
  /\ webOps = {}
  /\ outcome = [p \in Procs |-> <<>>]
  /\ notes = {}
  /\ backupOk = [p \in Procs |-> {}]
  /\ faults = 0
InitialContainers == [n \in Names |-> InitialContainer(n)]
UpdaterInit(scenarios, start) ==
  UpdaterInitFrom(scenarios, start, {InitialContainers})

\* the parts that take no part in a specification, at rest
NoFiles == [appCompose |-> FALSE, persistCompose |-> FALSE,
            restartScript |-> FALSE, hostCompose |-> FALSE]
NoWatchdog == [pc |-> "off", seen |-> "none", ops |-> <<>>]
SynthIdle == record = NoData /\ params = NoParams
LifeIdle ==
  /\ updater = "idle" /\ deferred = "none" /\ files = NoFiles
  /\ wd = NoWatchdog /\ selfUpdates = 0

NoBackup == [compose |-> "none", imageInfo |-> NoImage, inspectImage |-> NoImage]
NoDeploy == [pc |-> "off", force |-> FALSE, is_running |-> FALSE, count |-> 0,
             timeout |-> 0, phase |-> "none", backupDone |-> FALSE, ups |-> 0,
             healthPhases |-> 0, rollbacks |-> 0, health1 |-> "none",
             report |-> "none", status |-> 0, pull |-> "none"]
NoHost == [compose |-> "none", latest |-> 0, backup |-> NoBackup]
DeployIdle == dep = NoDeploy /\ dhost = NoHost
NoSignal == [count |-> 0, at |-> "none"]
SigIdle == sig = NoSignal
NoFile == [kind |-> "absent", type |-> "none", entries |-> <<>>]
NoWriter == [pc |-> "off", temp |-> NoFile, prev |-> NoFile, written |-> 0]
NoReader == [pc |-> "off", file |-> NoFile, threw |-> FALSE, result |-> <<>>,
             during |-> "off"]
FileIdle == invFile = NoFile /\ writer = NoWriter /\ reader = NoReader
NoStat == [pc |-> "off", list |-> <<>>, idx |-> 1, statuses |-> <<>>,
           checks |-> 0, lookups |-> 0, pulls |-> {}, cfu |-> <<>>]
NoProbe == [kind |-> "none"]
WebIdle == stat = NoStat /\ probe = NoProbe
AuxIdle == DeployIdle /\ SigIdle /\ FileIdle /\ WebIdle

Init ==
  /\ UpdaterInit(Scenarios, "doc")
  /\ SynthIdle
  /\ LifeIdle
  /\ AuxIdle

\* ------------------------------------------------------ the script
Op(name, op, data) == [name |-> name, op |-> op, labels |-> data.labels,
                       listed |-> (data # NoData)]
Result(name, r) == [name |-> name, result |-> r]

\* cycles started so far
CyclesStarted == cycle["sched"] + cycle["manual"]

\* a call either succeeds or fails; Fault counts the failures
Results == IF faults < MaxFaults THEN BOOLEAN ELSE {TRUE}
Fault(ok) == faults' = IF ok THEN faults ELSE faults + 1

\* results of a container that end its processing on a failed step
StepFailures == {"pull-failed", "stop-failed", "remove-failed",
                 "create-failed", "start-failed"}

\* a failed docker rm is logged and the recreation goes on regardless
Continue_PastFailedRemove(p, r) ==
  /\ pc' = [pc EXCEPT ![p] = IF r = "remove-failed" THEN "create" ELSE "loop"]
  /\ idx' = [idx EXCEPT ![p] = IF r = "remove-failed" THEN @ ELSE @ + 1]
  /\ outcome' = [outcome EXCEPT ![p] =
                   Append(@, Result(list[p][idx[p]], r))]

\* a failed create or start is tried again instead of ending the iteration
Continue_RetryCreate(p, r) ==
  /\ pc' = [pc EXCEPT ![p] = IF r \in {"create-failed", "start-failed"}
                              THEN "create" ELSE "loop"]
  /\ idx' = [idx EXCEPT ![p] = IF r \in {"create-failed", "start-failed"}
                                THEN @ ELSE @ + 1]
  /\ outcome' = [outcome EXCEPT ![p] =
                   Append(@, Result(list[p][idx[p]], r))]

\* a failed step ends the whole loop instead of the iteration
Continue_AbortLoop(p, r) ==
  /\ pc' = [pc EXCEPT ![p] = IF r \in StepFailures THEN "redoc" ELSE "loop"]
  /\ idx' = [idx EXCEPT ![p] = @ + 1]
  /\ outcome' = [outcome EXCEPT ![p] =
                   Append(@, Result(list[p][idx[p]], r))]

\* `continue`: on to the next name of the list
Continue(p, r) ==
  /\ pc' = [pc EXCEPT ![p] = "loop"]
  /\ idx' = [idx EXCEPT ![p] = @ + 1]
  /\ outcome' = [outcome EXCEPT ![p] = Append(@, Result(list[p][idx[p]], r))]

\* document_containers, at the head of a cycle and at the end of
\* update_containers
Document(p) ==
  /\ pc[p] \in {"doc", "redoc"}
  /\ \E self_id \in SelfIdReadings(containers) :
       inventory' = document_containers(containers, self_id)
  /\ pc' = [pc EXCEPT ![p] = IF pc[p] = "doc" THEN "select" ELSE "sleep"]
  /\ UNCHANGED <<sideVars, engineVars, registry, env, backups, cycle, list, idx, cdata,
                 newImg, newCid, web, requests, histVars>>

\* update_containers up to the for loop
SelectContainers(p) ==
  /\ pc[p] = "select"
  /\ LET l == auto_update_containers(inventory) IN
       IF l = <<>>
       THEN /\ pc' = [pc EXCEPT ![p] = "sleep"]     \* return 0
            /\ UNCHANGED <<list, idx>>
       ELSE /\ pc' = [pc EXCEPT ![p] = "loop"]
            /\ list' = [list EXCEPT ![p] = l]
            /\ idx' = [idx EXCEPT ![p] = 1]
  /\ UNCHANGED <<sideVars, engineVars, registry, env, inventory, backups, cycle, cdata,
                 newImg, newCid, web, requests, histVars>>

\* the inventory is not rebuilt after the loop
AfterLoop_NoRedocument == "sleep"

\* after the for loop: document_containers, then back to the main loop
AfterLoop == "redoc"

\* head of the loop body: container_data, image_name, the local-image test
NextContainer(p) ==
  /\ pc[p] = "loop"
  /\ IF idx[p] > Len(list[p])
     THEN /\ pc' = [pc EXCEPT ![p] = AfterLoop]
          /\ UNCHANGED <<idx, outcome, cdata>>
     ELSE LET container_data == InventoryLookup(inventory, list[p][idx[p]]) IN
          IF container_data = NoData
          THEN Continue(p, "not-in-inventory") /\ UNCHANGED cdata
          ELSE IF is_locally_built_image(container_data.image)
          THEN Continue(p, "locally-built") /\ UNCHANGED cdata
          ELSE /\ pc' = [pc EXCEPT ![p] = "pull"]
               /\ cdata' = [cdata EXCEPT ![p] = container_data]
               /\ UNCHANGED <<idx, outcome>>
  /\ UNCHANGED <<sideVars, engineVars, registry, env, inventory, backups, cycle, list,
                 newImg, newCid, web, requests, ops, webOps, notes, backupOk,
                 faults>>

\* the comparison never succeeds (an id compared with a reference)
SameImage_Never(new_image_id, current_image_id) == FALSE

\* [ "$new_image_id" = "$current_image_id" ]
SameImage(new_image_id, current_image_id) == new_image_id = current_image_id

\* docker pull, docker inspect of the image, comparison of the ids
Pull(p) ==
  /\ pc[p] = "pull"
  /\ LET name == list[p][idx[p]]
         r == RefOf(cdata[p].image)
         new_image_id == ImageId(r, registry[r])
     IN /\ ops' = [ops EXCEPT ![p] = @ \cup {Op(name, "pull", cdata[p])}]
        /\ \E ok \in Results : Fault(ok) /\
             IF ~ok
             THEN /\ Continue(p, "pull-failed")
                  /\ UNCHANGED <<localTag, images, newImg>>
             ELSE /\ localTag' = [localTag EXCEPT ![r] = registry[r]]
                  /\ images' = images \cup {new_image_id}
                  /\ IF SameImage(new_image_id, cdata[p].imageId)
                     THEN Continue(p, "no-new-image") /\ UNCHANGED newImg
                     ELSE /\ pc' = [pc EXCEPT ![p] = "approach"]
                          /\ newImg' = [newImg EXCEPT ![p] = new_image_id]
                          /\ UNCHANGED <<idx, outcome>>
  /\ UNCHANGED <<sideVars, containers, nextSerial, registry, env, inventory, backups,
                 cycle, list, cdata, newCid, web, requests, webOps, notes,
                 backupOk>>

\* a notification: the mail, or the log line that stands in for it
Note(name, cur, new, via) ==
  [name |-> name, current |-> cur, candidate |-> new, via |-> via]

\* the enablement test inverted
send_email_notification_Inverted(e, container_name, current_image, available_update, smtpOk) ==
  IF e.EMAIL_ENABLED /\ e.EMAIL_TO THEN {}
  ELSE {Note(container_name, current_image, available_update, "log")}

\* send_email_notification: what leaves the script for the given settings
send_email_notification(e, container_name, current_image, available_update, smtpOk) ==
  IF ~e.EMAIL_ENABLED \/ ~e.EMAIL_TO THEN {}
  ELSE IF e.sendmail
       THEN {Note(container_name, current_image, available_update, "sendmail")}
  ELSE IF e.smtp
       THEN IF smtpOk
            THEN {Note(container_name, current_image, available_update, "smtp")}
            ELSE {Note(container_name, NoImage, NoImage, "smtp-error-log")}
  ELSE {Note(container_name, current_image, available_update, "log")}

\* curl is only run when mail is on, sendmail is missing and SMTP is set up
SmtpResults ==
  IF env.EMAIL_ENABLED /\ env.EMAIL_TO /\ ~env.sendmail /\ env.smtp
  THEN Results ELSE {TRUE}

\* the label is not honoured
IsNotify_Never(update_approach) == FALSE

\* [ "$update_approach" = "notify" ]
IsNotify(update_approach) == update_approach = <<"notify">>

\* the update-approach label of the live container
Approach(p) ==
  /\ pc[p] = "approach"
  /\ LET name == list[p][idx[p]]
         c == IF Named(name) = NoName THEN Absent ELSE containers[Named(name)]
         update_approach == IF c.exists
                            THEN LabelValue(c.labels, "update-approach")
                            ELSE <<>>
     IN IF IsNotify(update_approach)
        THEN /\ \E smtpOk \in SmtpResults : Fault(smtpOk) /\
                  notes' = notes \cup
                    send_email_notification(env, name, cdata[p].imageId,
                                            newImg[p], smtpOk)
             /\ Continue(p, "notified")
        ELSE /\ pc' = [pc EXCEPT ![p] = "backup"]
             /\ UNCHANGED <<notes, idx, outcome, faults>>
  /\ UNCHANGED <<sideVars, engineVars, registry, env, inventory, backups, cycle, list,
                 cdata, newImg, newCid, web, requests, ops, webOps, backupOk>>

\* echo "$container_data" > "$backup_file": the result is not looked at
Backup(p) ==
  /\ pc[p] = "backup"
  /\ LET name == list[p][idx[p]] IN
     \E written \in Results : Fault(written) /\
       /\ backups' = IF written
                     THEN backups \cup {[name |-> name, data |-> cdata[p]]}
                     ELSE backups
       /\ backupOk' = [backupOk EXCEPT ![p] =
                         IF written THEN @ \cup {name} ELSE @]
  /\ pc' = [pc EXCEPT ![p] = "stop"]
  /\ UNCHANGED <<sideVars, engineVars, registry, env, inventory, cycle, list, idx, cdata,
                 newImg, newCid, web, requests, ops, webOps, outcome, notes>>

\* docker stop; stopping the container the script runs in ends every
\* process of that container
Stop(p) ==
  /\ pc[p] = "stop"
  /\ LET name == list[p][idx[p]]
         n == Named(name)
     IN /\ ops' = [ops EXCEPT ![p] = @ \cup {Op(name, "stop", cdata[p])}]
        /\ \E ok \in Results : Fault(ok) /\
             IF ok /\ n # NoName /\ containers[n].exists
             THEN /\ containers' = [containers EXCEPT ![n].running = FALSE]
                  /\ IF n = SelfName /\ containers[n].running
                     THEN /\ pc' = [q \in Procs |-> "dead"]
                          /\ web' = [web EXCEPT !.pc = "dead"]
                     ELSE /\ pc' = [pc EXCEPT ![p] = "rm"]
                          /\ UNCHANGED web
                  /\ UNCHANGED <<idx, outcome>>
             ELSE /\ Continue(p, "stop-failed")
                  /\ UNCHANGED <<containers, web>>
  /\ UNCHANGED <<sideVars, nextSerial, localTag, images, registry, env, inventory,
                 backups, cycle, list, cdata, newImg, newCid, requests, webOps,
                 notes, backupOk>>

\* docker rm (no -f, no -v)
Remove(p) ==
  /\ pc[p] = "rm"
  /\ LET name == list[p][idx[p]]
         n == Named(name)
     IN /\ ops' = [ops EXCEPT ![p] = @ \cup {Op(name, "rm", cdata[p])}]
        /\ \E ok \in Results : Fault(ok) /\
             IF ok /\ n # NoName /\ containers[n].exists /\ ~containers[n].running
             THEN /\ containers' = [containers EXCEPT ![n] = Absent]
                  /\ pc' = [pc EXCEPT ![p] = "create"]
                  /\ UNCHANGED <<idx, outcome>>
             ELSE /\ Continue(p, "remove-failed")
                  /\ UNCHANGED containers
  /\ UNCHANGED <<sideVars, nextSerial, localTag, images, registry, env, inventory,
                 backups, cycle, list, cdata, newImg, newCid, web, requests,
                 webOps, notes, backupOk>>

\* the container the engine makes of the parameters it was given
PortOf(a) ==
  IF ":" \in Range(a)
  THEN Port(Cut(a, ":", 3), <<Binding(Cut(a, ":", 1), Cut(a, ":", 2))>>)
  ELSE Port(a, <<Binding(<<>>, <<>>)>>)
MountOf(a) == Mount(Cut(a, ":", 1), Cut(a, ":", 2), Cut(a, ":", 3))
RestartOf(a) ==
  [Name |-> Cut(a, ":", 1),
   MaximumRetryCount |-> IF ":" \in Range(a) THEN Cut(a, ":", 2) ELSE <<"0">>]
Created(ps, serial, imageId) ==
  [exists |-> TRUE, running |-> FALSE, serial |-> serial, image |-> imageId,
   labels |-> ps.labels, env |-> ps.env,
   mounts |-> [i \in DOMAIN ps.volumes |-> MountOf(ps.volumes[i])],
   ports |-> [i \in DOMAIN ps.ports |-> PortOf(ps.ports[i])],
   restartPolicy |-> RestartOf(ps.restart)]

\* eval "$create_command"
Create(p) ==
  /\ pc[p] = "create"
  /\ LET name == list[p][idx[p]]
         ps == SynthesizedParams(name, cdata[p], cdata[p].image)
         n == Named(ps.name)
         r == RefOf(ps.image)
     IN /\ ops' = [ops EXCEPT ![p] = @ \cup {Op(name, "create", cdata[p])}]
        /\ \E ok \in Results : Fault(ok) /\
             IF ok /\ ps.ok /\ n # NoName /\ r # "" /\ ~containers[n].exists
             THEN /\ containers' = [containers EXCEPT ![n] =
                      Created(ps, nextSerial, ImageId(r, localTag[r]))]
                  /\ nextSerial' = nextSerial + 1
                  /\ newCid' = [newCid EXCEPT ![p] = FullId(nextSerial)]
                  /\ pc' = [pc EXCEPT ![p] = "start"]
                  /\ UNCHANGED <<idx, outcome>>
             ELSE /\ Continue(p, "create-failed")
                  /\ UNCHANGED <<containers, nextSerial, newCid>>
  /\ UNCHANGED <<sideVars, localTag, images, registry, env, inventory, backups, cycle,
                 list, cdata, newImg, web, requests, webOps, notes, backupOk>>

\* the new container is taken for running once it is created
Start_NotIssued(p) ==
  /\ pc[p] = "start"
  /\ Continue(p, "updated")
  /\ UNCHANGED <<sideVars, engineVars, registry, env, inventory, backups, cycle,
                 list, cdata, newImg, newCid, web, requests, ops, webOps,
                 notes, backupOk, faults>>

\* docker start "$container_id"
Start(p) ==
  /\ pc[p] = "start"
  /\ LET name == list[p][idx[p]]
         target == {n \in Names : /\ containers[n].exists
                                  /\ FullId(containers[n].serial) = newCid[p]}
     IN /\ ops' = [ops EXCEPT ![p] = @ \cup {Op(name, "start", cdata[p])}]
        /\ \E ok \in Results : Fault(ok) /\
             IF ok /\ target # {}
             THEN /\ containers' = [n \in Names |->
                        IF n \in target
                        THEN [containers[n] EXCEPT !.running = TRUE]
                        ELSE containers[n]]
                  /\ IF env.CLEANUP_OLD_IMAGES
                     THEN /\ pc' = [pc EXCEPT ![p] = "cleanup"]
                          /\ UNCHANGED <<idx, outcome>>
                     ELSE Continue(p, "updated")
             ELSE /\ Continue(p, "start-failed")
                  /\ UNCHANGED containers
  /\ UNCHANGED <<sideVars, nextSerial, localTag, images, registry, env, inventory,
                 backups, cycle, list, cdata, newImg, newCid, web, requests,
                 webOps, notes, backupOk>>

\* a failed docker rmi ends the container's update as a failure
AfterCleanup_FailureRecorded(ok) == IF ok THEN "updated" ELSE "cleanup-failed"

\* if docker rmi ...; then log info; else log warn; fi: the update stands
AfterCleanup(ok) == "updated"

\* docker rmi "$current_image_id" when CLEANUP_OLD_IMAGES is true
Cleanup(p) ==
  /\ pc[p] = "cleanup"
  /\ LET name == list[p][idx[p]]
         old == cdata[p].imageId
         inUse == \E n \in Names : containers[n].exists /\ containers[n].image = old
     IN /\ ops' = [ops EXCEPT ![p] = @ \cup {Op(name, "rmi", cdata[p])}]
        /\ \E ok \in Results :
             /\ Fault(ok)
             /\ images' = IF ok /\ ~inUse THEN images \ {old} ELSE images
             /\ Continue(p, AfterCleanup(ok))
  /\ UNCHANGED <<sideVars, containers, nextSerial, localTag, registry, env, inventory,
                 backups, cycle, list, cdata, newImg, newCid, web, requests,
                 webOps, notes, backupOk>>

\* sleep "$UPDATE_INTERVAL" is over: the next cycle of the main loop
Wake(p) ==
  /\ pc[p] = "sleep"
  /\ CyclesStarted < MaxCycles
  /\ pc' = [pc EXCEPT ![p] = "doc"]
  /\ cycle' = [cycle EXCEPT ![p] = @ + 1]
  /\ ops' = [ops EXCEPT ![p] = {}]
  /\ outcome' = [outcome EXCEPT ![p] = <<>>]
  /\ backupOk' = [backupOk EXCEPT ![p] = {}]
  /\ UNCHANGED <<sideVars, engineVars, registry, env, inventory, backups, list, idx,
                 cdata, newImg, newCid, web, requests, webOps, notes, faults>>

\* ------------------------------------------------ the web interface
\* DockerService.getInventoryContainers on a well-formed inventory file
getInventoryContainers(inv) ==
  [i \in DOMAIN inv |-> [inv[i] EXCEPT !.name = StripSlash(@)]]

\* updateContainer up to the pull (the routes of the dashboard and of the
\* webhook both call it with the name of the request)
UpdateContainer(containerName) ==
  /\ web.pc \in {"idle", "done"}
  /\ requests < MaxRequests
  /\ pc["manual"] = "idle"
  /\ CyclesStarted < MaxCycles
  /\ requests' = requests + 1
  /\ webOps' = {}
  /\ LET cs == getInventoryContainers(inventory)
         found == {i \in DOMAIN cs : cs[i].name = containerName}
     IN IF found = {}
        THEN web' = [pc |-> "done", name |-> containerName, rec |-> NoData,
                     result |-> "error-not-found"]
        ELSE LET container == cs[CHOOSE i \in found : \A j \in found : i <= j]
             IN IF ~hasAutoUpdateLabel(container.labels)
                THEN web' = [pc |-> "done", name |-> containerName,
                             rec |-> container, result |-> "error-no-label"]
                ELSE web' = [pc |-> "pull", name |-> containerName,
                             rec |-> container, result |-> "none"]
  /\ UNCHANGED <<sideVars, engineVars, registry, env, inventory, backups, pc, cycle,
                 list, idx, cdata, newImg, newCid, ops, outcome, notes,
                 backupOk, faults>>

\* newImageId.trim() === container.imageId
NoUpdateNeeded(newImageId, imageId) == newImageId = imageId

\* updateContainer from the pull on: pull, inspect, compare, run the script
UpdateContainerPull ==
  /\ web.pc = "pull"
  /\ LET r == RefOf(web.rec.image)
         newImageId == ImageId(r, registry[r])
     IN /\ webOps' = webOps \cup {Op(web.name, "pull", web.rec)}
        /\ \E ok \in Results : Fault(ok) /\
             IF ~ok
             THEN /\ web' = [web EXCEPT !.pc = "done", !.result = "error-pull"]
                  /\ UNCHANGED <<localTag, images, pc, cycle>>
             ELSE /\ localTag' = [localTag EXCEPT ![r] = registry[r]]
                  /\ images' = images \cup {newImageId}
                  /\ IF NoUpdateNeeded(newImageId, web.rec.imageId)
                     THEN /\ web' = [web EXCEPT !.pc = "done",
                                               !.result = "no-update-needed"]
                          /\ UNCHANGED <<pc, cycle>>
                     ELSE /\ web' = [web EXCEPT !.pc = "exec"]
                          /\ pc' = [pc EXCEPT !["manual"] = "doc"]
                          /\ cycle' = [cycle EXCEPT !["manual"] = 1]
  /\ UNCHANGED <<sideVars, containers, nextSerial, registry, env, inventory, backups,
                 list, idx, cdata, newImg, newCid, requests, ops, outcome,
                 notes, backupOk>>

Next ==
  \/ \E p \in Procs : Document(p)
  \/ \E p \in Procs : SelectContainers(p)
  \/ \E p \in Procs : NextContainer(p)
  \/ \E p \in Procs : Pull(p)
  \/ \E p \in Procs : Approach(p)
  \/ \E p \in Procs : Backup(p)
  \/ \E p \in Procs : Stop(p)
  \/ \E p \in Procs : Remove(p)
  \/ \E p \in Procs : Create(p)
  \/ \E p \in Procs : Start(p)
  \/ \E p \in Procs : Cleanup(p)
  \/ \E p \in Procs : Wake(p)
  \/ \E containerName \in ReqNames : UpdateContainer(containerName)
  \/ UpdateContainerPull

Spec == Init /\ [][Next]_vars

\* ------------------------------------ synthesis of creation parameters
\* (the part of update_containers between stop and rm, on records of its own)
EnvLists ==
  {<<>>,
   <<<<"TZ", "=", "UTC">>>>,
   <<<<"GREETING", "=", "hello", " ", "world">>>>,
   <<<<"TZ", "=", "UTC">>, <<"MOTD", "=", "a", " ", "b", " ", "c">>>>}
LabelLists ==
  {<<Lbl("auto-update", <<"true">>)>>,
   <<Lbl("auto-update", <<"true">>), Lbl("tier", <<"front">>)>>,
   <<Lbl("auto-update", <<"true">>),
     Lbl("description", <<"hello", " ", "world">>)>>}
MountLists ==
  {<<>>,
   <<Mount(<<"/srv/www">>, <<"/usr/share/nginx/html">>, <<"ro">>)>>,
   <<Mount(<<"/srv/www">>, <<"/usr/share/nginx/html">>, <<"ro">>),
     Mount(<<"/var/lib/docker/volumes/data/_data">>, <<"/data">>, <<"rw">>)>>}
PortLists ==
  {<<>>,
   <<Port(<<"80", "/", "tcp">>, <<Binding(<<"0.0.0.0">>, <<"8080">>)>>)>>,
   <<Port(<<"80", "/", "tcp">>, <<Binding(<<>>, <<>>)>>)>>,
   <<Port(<<"80", "/", "tcp">>, <<Binding(<<"0.0.0.0">>, <<"8080">>)>>),
     Port(<<"53", "/", "udp">>, <<>>)>>}
RestartPolicies ==
  {[Name |-> n, MaximumRetryCount |-> <<"0">>] :
     n \in {<<"no">>, <<"always">>, <<"unless-stopped">>, <<"on-failure">>}}
  \cup {[Name |-> <<"on-failure">>, MaximumRetryCount |-> <<"3">>]}

\* .NetworkSettings.Networks in key order: none, the default bridge with
\* the address the engine gave, a network of the user's with and without a
\* configured address, both
NetworkLists ==
  {<<>>,
   <<Attachment(<<"bridge">>, <<"172.17.0.2">>, FALSE)>>,
   <<Attachment(<<"appnet">>, <<"10.0.0.5">>, TRUE)>>,
   <<Attachment(<<"appnet">>, <<"172.18.0.3">>, FALSE)>>,
   <<Attachment(<<"appnet">>, <<"10.0.0.5">>, TRUE),
     Attachment(<<"bridge">>, <<"172.17.0.2">>, FALSE)>>}
CommandLists ==
  {<<>>,
   <<<<"sleep">>, <<"60">>>>,
   <<<<"nginx">>, <<"-g">>, <<"daemon", " ", "off;">>>>}
EntrypointLists == {<<>>, <<<<"/", "init">>>>}

PlainRecord ==
  [id |-> FullId(7), name |-> <<"/", "web">>,
   image |-> <<"nginx", ":", "latest">>, imageId |-> ImageId("nginx:latest", 1),
   labels |-> <<Lbl("auto-update", <<"true">>)>>, env |-> <<>>, mounts |-> <<>>,
   ports |-> <<>>, restartPolicy |-> NoRestart,
   network |-> <<>>, command |-> <<>>, entrypoint |-> <<>>]

SynthRecords ==
  {[PlainRecord EXCEPT !.labels = l, !.env = e, !.mounts = m, !.ports = po,
                       !.restartPolicy = rp] :
     l \in LabelLists, e \in EnvLists, m \in MountLists, po \in PortLists,
     rp \in RestartPolicies}
  \cup
  {[PlainRecord EXCEPT !.network = nw, !.command = c, !.entrypoint = ep] :
     nw \in NetworkLists, c \in CommandLists, ep \in EntrypointLists}

InitSynth ==
  /\ UpdaterInit({Scenario({}, Defaults)}, "idle")
  /\ record \in SynthRecords
  /\ params = NoParams
  /\ LifeIdle
  /\ AuxIdle

\* container_name, image_name and the command are taken from container_data
Synthesize ==
  /\ record # NoData
  /\ params = NoParams
  /\ params' = SynthesizedParams(StripSlash(record.name), record, record.image)
  /\ UNCHANGED <<record, lifeVars, auxVars, containers, nextSerial, localTag, registry,
                 images, env, inventory, backups, pc, cycle, list, idx, cdata,
                 newImg, newCid, web, requests, ops, webOps, outcome, notes,
                 backupOk, faults>>

NextSynth == Synthesize
SpecSynth == InitSynth /\ [][NextSynth]_vars

\* --------------------------------------- the updater's own lifecycle
\* (handle_self_update and the restart script it writes, the engine's
\* restart policy, the watchdog)
SelfRef == ImageOf(SelfName)
\* everything of the updater script and of the web interface
updaterVars == <<registry, env, inventory, backups, pc, cycle, list, idx,
                 cdata, newImg, newCid, web, requests, ops, webOps, outcome,
                 notes, backupOk>>

\* the main process of a container ends: the engine ends every other
\* process of the container with it
EndOfContainer(d) == IF d \in {"sleep", "rm", "up", "cleanup"} THEN "killed" ELSE d

\* docker run -d of the fallback configuration (self-update-handler.sh
\* 44-60, watchdog 40-51); envs is the -e list
FallbackPorts == <<Port(<<"3000">>, <<Binding(<<>>, <<"3000">>)>>)>>
FallbackMounts ==
  <<Mount(<<"/", "var", "/", "run", "/", "docker", ".", "sock">>,
          <<"/", "var", "/", "run", "/", "docker", ".", "sock">>, <<"ro">>),
    Mount(<<"containerpulse", "-", "data">>,
          <<"/", "var", "/", "lib", "/", "containerpulse">>, <<>>),
    Mount(<<"containerpulse", "-", "logs">>,
          <<"/", "var", "/", "log", "/", "containerpulse">>, <<>>)>>
BaseEnv == <<<<"NODE", "_", "ENV", "=", "production">>,
             <<"UPDATE", "_", "INTERVAL", "=", "86400">>,
             <<"LOG", "_", "LEVEL", "=", "info">>>>
SecretEnv == <<<<"SESSION", "_", "SECRET", "=", "change-this-session-secret">>,
               <<"JWT", "_", "SECRET", "=", "change-this-jwt-secret">>,
               <<"WEBHOOK", "_", "SECRET", "=", "change-this-webhook-secret">>,
               <<"ADMIN", "_", "USERNAME", "=", "admin">>,
               <<"ADMIN", "_", "PASSWORD", "=", "change-this-password">>>>
FallbackContainer(serial, imageId, envs) ==
  [exists |-> TRUE, running |-> TRUE, serial |-> serial, image |-> imageId,
   labels |-> <<Lbl("auto-update", <<"true">>)>>, env |-> envs,
   mounts |-> FallbackMounts, ports |-> FallbackPorts,
   restartPolicy |-> [Name |-> <<"unless-stopped">>,
                      MaximumRetryCount |-> <<"0">>]]
\* docker-compose up -d containerpulse with the compose file of the project
ComposeContainer(serial, imageId) ==
  [InitialContainer(SelfName) EXCEPT !.serial = serial, !.image = imageId,
                                     !.running = TRUE]

\* handle_self_update up to the launch of the restart script
HandleSelfUpdate ==
  /\ updater = "running"
  /\ selfUpdates < MaxSelfUpdates
  /\ selfUpdates' = selfUpdates + 1
  /\ files' = [files EXCEPT !.restartScript = TRUE,
                            !.persistCompose = @ \/ files.appCompose]
  /\ deferred' = "sleep"
  /\ updater' = "launched"
  /\ UNCHANGED <<synthVars, auxVars, engineVars, updaterVars, faults, wd>>

\* exit 0 of the script, which startup.sh made the main process of the
\* container
HandlerExit ==
  /\ updater = "launched"
  /\ updater' = "exited"
  /\ containers' = [containers EXCEPT ![SelfName].running = FALSE]
  /\ deferred' = EndOfContainer(deferred)
  /\ UNCHANGED <<synthVars, auxVars, nextSerial, localTag, images, updaterVars, faults,
                 files, wd, selfUpdates>>

\* the restart script: sleep 10 is over
DeferredWake ==
  /\ deferred = "sleep"
  /\ deferred' = "rm"
  /\ UNCHANGED <<synthVars, auxVars, engineVars, updaterVars, faults, updater, files, wd,
                 selfUpdates>>

\* the restart script: docker rm -f "$CONTAINER_NAME", run in the container
\* it removes
DeferredRemove ==
  /\ deferred = "rm"
  /\ \E ok \in Results : Fault(ok) /\
       IF ok /\ containers[SelfName].exists
       THEN /\ containers' = [containers EXCEPT ![SelfName] = Absent]
            /\ updater' = "gone"
            /\ deferred' = "killed"
       ELSE /\ deferred' = "up"
            /\ UNCHANGED <<containers, updater>>
  /\ UNCHANGED <<synthVars, auxVars, nextSerial, localTag, images, updaterVars, files,
                 wd, selfUpdates>>

\* the restart script: docker-compose up (the image has no docker-compose)
\* or docker run of the fallback configuration
DeferredUp ==
  /\ deferred = "up"
  /\ deferred' = "cleanup"
  /\ IF ~files.persistCompose /\ ~containers[SelfName].exists
     THEN /\ containers' = [containers EXCEPT ![SelfName] =
               FallbackContainer(nextSerial, ImageId(SelfRef, localTag[SelfRef]),
                                 BaseEnv \o SecretEnv)]
          /\ nextSerial' = nextSerial + 1
     ELSE UNCHANGED <<containers, nextSerial>>
  /\ UNCHANGED <<synthVars, auxVars, localTag, images, updaterVars, faults, updater,
                 files, wd, selfUpdates>>

\* the restart script: rm -f /tmp/restart-containerpulse.sh
DeferredCleanup ==
  /\ deferred = "cleanup"
  /\ deferred' = "done"
  /\ files' = [files EXCEPT !.restartScript = FALSE]
  /\ UNCHANGED <<synthVars, auxVars, engineVars, updaterVars, faults, updater, wd,
                 selfUpdates>>

\* restart: unless-stopped; the engine starts the container again after its
\* main process has ended
RestartApplies(c) ==
  c.exists /\ ~c.running /\ c.restartPolicy.Name \in {<<"always">>, <<"unless-stopped">>}
EngineRestart ==
  /\ RestartApplies(containers[SelfName])
  /\ containers' = [containers EXCEPT ![SelfName].running = TRUE]
  /\ updater' = "running"
  /\ UNCHANGED <<synthVars, auxVars, nextSerial, localTag, images, updaterVars, faults,
                 deferred, files, wd, selfUpdates>>

\* the main process of the updater container ends of itself
Crash ==
  /\ updater \in {"running", "launched"}
  /\ faults < MaxFaults
  /\ faults' = faults + 1
  /\ updater' = "gone"
  /\ containers' = [containers EXCEPT ![SelfName].running = FALSE]
  /\ deferred' = EndOfContainer(deferred)
  /\ UNCHANGED <<synthVars, auxVars, nextSerial, localTag, images, updaterVars, files,
                 wd, selfUpdates>>

\* docker ps --format "{{.Names}}" | grep -q "^containerpulse$", negated
WdAbsent_Inverted(cs) == cs[SelfName].exists /\ cs[SelfName].running

\* ! docker ps --format "{{.Names}}" | grep -q "^${CONTAINERPULSE_NAME}$"
WdAbsent(cs) == ~(cs[SelfName].exists /\ cs[SelfName].running)

WdCall(op, ok) == [op |-> op, ok |-> ok]

\* the watchdog looks whether the updater container is running
WdPoll ==
  /\ wd.pc = "poll"
  /\ wd' = [pc |-> IF WdAbsent(containers) THEN "start" ELSE "sleep",
            seen |-> IF containers[SelfName].exists /\ containers[SelfName].running
                     THEN "present" ELSE "absent",
            ops |-> <<>>]
  /\ UNCHANGED <<synthVars, auxVars, engineVars, updaterVars, faults, updater, deferred,
                 files, selfUpdates>>

\* docker start "$CONTAINERPULSE_NAME"
WdStart ==
  /\ wd.pc = "start"
  /\ \E ok \in Results : Fault(ok) /\
       LET done == ok /\ containers[SelfName].exists IN
       /\ wd' = [wd EXCEPT !.pc = IF done THEN "sleep" ELSE "pull",
                           !.ops = Append(@, WdCall("start", done))]
       /\ IF done /\ ~containers[SelfName].running
          THEN /\ containers' = [containers EXCEPT ![SelfName].running = TRUE]
               /\ updater' = "running"
          ELSE UNCHANGED <<containers, updater>>
  /\ UNCHANGED <<synthVars, auxVars, nextSerial, localTag, images, updaterVars, deferred,
                 files, selfUpdates>>

\* docker pull harrisyn/containerpulse:latest
WdPull ==
  /\ wd.pc = "pull"
  /\ \E ok \in Results : Fault(ok) /\
       /\ wd' = [wd EXCEPT !.pc = IF ok THEN "rm" ELSE "sleep",
                           !.ops = Append(@, WdCall("pull", ok))]
       /\ IF ok
          THEN /\ localTag' = [localTag EXCEPT ![SelfRef] = registry[SelfRef]]
               /\ images' = images \cup {ImageId(SelfRef, registry[SelfRef])}
          ELSE UNCHANGED <<localTag, images>>
  /\ UNCHANGED <<synthVars, auxVars, containers, nextSerial, updaterVars, updater,
                 deferred, files, selfUpdates>>

\* docker rm "$CONTAINERPULSE_NAME" 2>/dev/null (no -f; result not looked at)
WdRemove ==
  /\ wd.pc = "rm"
  /\ \E ok \in Results : Fault(ok) /\
       LET done == ok /\ containers[SelfName].exists
                       /\ ~containers[SelfName].running IN
       /\ wd' = [wd EXCEPT !.pc = "deploy",
                           !.ops = Append(@, WdCall("rm", done))]
       /\ containers' = IF done THEN [containers EXCEPT ![SelfName] = Absent]
                        ELSE containers
  /\ UNCHANGED <<synthVars, auxVars, nextSerial, localTag, images, updaterVars, updater,
                 deferred, files, selfUpdates>>

\* docker-compose up -d containerpulse when /app/docker-compose.prod.yml is
\* there, docker run -d otherwise (neither result is looked at)
WdDeploy ==
  /\ wd.pc = "deploy"
  /\ \E ok \in Results : Fault(ok) /\
       LET c == containers[SelfName]
           img == ImageId(SelfRef, localTag[SelfRef])
           made == ok /\ ~c.exists
           started == ok /\ c.exists /\ ~c.running /\ files.hostCompose
       IN /\ wd' = [wd EXCEPT !.pc = "sleep",
                              !.ops = Append(@, WdCall("deploy", ok /\ (made \/ files.hostCompose)))]
          /\ containers' =
               IF made
               THEN [containers EXCEPT ![SelfName] =
                       IF files.hostCompose
                       THEN ComposeContainer(nextSerial, img)
                       ELSE FallbackContainer(nextSerial, img, BaseEnv)]
               ELSE IF started
                    THEN [containers EXCEPT ![SelfName].running = TRUE]
                    ELSE containers
          /\ nextSerial' = IF made THEN nextSerial + 1 ELSE nextSerial
          /\ updater' = IF made \/ started THEN "running" ELSE updater
  /\ UNCHANGED <<synthVars, auxVars, localTag, images, updaterVars, deferred, files,
                 selfUpdates>>

\* sleep "$CHECK_INTERVAL"
WdSleep ==
  /\ wd.pc = "sleep"
  /\ wd' = [wd EXCEPT !.pc = "poll"]
  /\ UNCHANGED <<synthVars, auxVars, engineVars, updaterVars, faults, updater, deferred,
                 files, selfUpdates>>

InitLife ==
  /\ UpdaterInit({Scenario(S, Defaults) : S \in {{}, {SelfRef}}}, "idle")
  /\ SynthIdle
  /\ AuxIdle
  /\ updater = "running"
  /\ deferred = "none"
  /\ files \in [appCompose : BOOLEAN, persistCompose : {FALSE},
                restartScript : {FALSE}, hostCompose : BOOLEAN]
  /\ wd = [pc |-> "poll", seen |-> "none", ops |-> <<>>]
  /\ selfUpdates = 0

NextLife ==
  \/ HandleSelfUpdate
  \/ HandlerExit
  \/ DeferredWake
  \/ DeferredRemove
  \/ DeferredUp
  \/ DeferredCleanup
  \/ EngineRestart
  \/ Crash
  \/ WdPoll
  \/ WdStart
  \/ WdPull
  \/ WdRemove
  \/ WdDeploy
  \/ WdSleep

SpecLife == InitLife /\ [][NextLife]_vars

\* the restart script, the watchdog, the engine's restart policy and the
\* exit of the handler each take their next step in the end; a crash and a
\* further hand-off need not happen
SpecLifeFair ==
  /\ SpecLife
  /\ WF_vars(HandlerExit)
  /\ WF_vars(DeferredWake \/ DeferredRemove \/ DeferredUp \/ DeferredCleanup)
  /\ WF_vars(EngineRestart)
  /\ WF_vars(WdPoll \/ WdStart \/ WdPull \/ WdRemove \/ WdDeploy \/ WdSleep)

\* ------------------------------------------------ deploy.sh: deploy
\* (release with backup, health check and rollback of the service's own
\* deployment)
DeployHealthTimeout == 60
DefaultHealthTimeout == 30
ProbePause == 2

\* everything deploy.sh leaves alone
deployFrame == <<updaterVars, faults, synthVars, lifeVars, sigVars, fileVars, webVars>>

\* the image `docker-compose up` of the compose file resolves to: the file
\* as shipped builds the project (build: .), the edited file names the
\* published tag (image: harrisyn/containerpulse:latest)
BuiltImage == ImageId("containerpulse_build", 1)
ComposeImage(compose, tag) ==
  IF compose = "build" THEN BuiltImage ELSE ImageId(SelfRef, tag[SelfRef])

\* docker ps --format "{{.Names}}" | grep -q "^containerpulse$"
ServiceRunning(cs) == cs[SelfName].exists /\ cs[SelfName].running

\* docker-compose up -d: the container of the service is kept when it
\* already matches the file and its image, started when stopped, and
\* recreated otherwise
ComposeUp(cs, serial, compose, tag) ==
  LET c == cs[SelfName]
      target == ComposeImage(compose, tag) IN
  IF c.exists /\ c.image = target
  THEN [cs EXCEPT ![SelfName].running = TRUE]
  ELSE [cs EXCEPT ![SelfName] = ComposeContainer(serial, target)]
ComposeUpSerial(cs, serial, compose, tag) ==
  IF cs[SelfName].exists /\ cs[SelfName].image = ComposeImage(compose, tag)
  THEN serial ELSE serial + 1

\* set -e: a failing command of backup_current_state ends the script
AfterBackup_NoErrexit(ok) == "pull"
AfterBackup(ok) == IF ok THEN "pull" ELSE "exit"

\* the else branch of `if check_health 60` and the failure branch of
\* docker-compose up: rollback only if the service was running
AfterFailure_NoRollback(is_running) == "exit"
AfterFailure(is_running) == IF is_running THEN "rb_down" ELSE "exit"

\* count=$((count + 2))
NextCount_Stuck(count) == count
NextCount(count) == count + ProbePause

\* a rollback that brought the service back makes up for the failed release
AfterRollback_SuccessReported(ok) == IF ok THEN 0 ELSE 1

\* if rollback; then warn ...; return 1; else error ...; return 1; fi
AfterRollback(ok) == 1

DeployExit(d, report, status) ==
  [d EXCEPT !.pc = "exit", !.report = report, !.status = status]

\* deploy 131-146: mkdir -p of the backup directory, is_running
DeployStart ==
  /\ dep.pc = "start"
  /\ \E ok \in BOOLEAN :
       dep' = IF ok
              THEN [dep EXCEPT !.is_running = ServiceRunning(containers),
                               !.pc = IF ServiceRunning(containers)
                                      THEN "backup" ELSE "pull"]
              ELSE DeployExit(dep, "aborted", 1)
  /\ UNCHANGED <<dhost, engineVars, deployFrame>>

\* backup_current_state 60-86
backup_current_state ==
  /\ dep.pc = "backup"
  /\ \E ok \in BOOLEAN :
       /\ dep' = IF AfterBackup(ok) = "exit"
                 THEN DeployExit(dep, "aborted", 1)
                 ELSE [dep EXCEPT !.pc = AfterBackup(ok), !.backupDone = ok]
       /\ dhost' = IF ok
                   THEN [dhost EXCEPT
                           !.latest = @ + 1,
                           !.backup = [compose |-> dhost.compose,
                                       imageInfo |-> ImageId(SelfRef, localTag[SelfRef]),
                                       inspectImage |-> containers[SelfName].image]]
                   ELSE dhost
  /\ UNCHANGED <<engineVars, deployFrame>>

\* deploy 153-169: docker pull and the comparison of image ids
DeployPull ==
  /\ dep.pc = "pull"
  /\ \E ok \in BOOLEAN :
       LET tag == [localTag EXCEPT ![SelfRef] = registry[SelfRef]]
           latest == ImageId(SelfRef, tag[SelfRef]) IN
       IF ~ok
       THEN /\ dep' = DeployExit([dep EXCEPT !.pull = "failed"], "pull-failed", 1)
            /\ UNCHANGED <<localTag, images>>
       ELSE /\ localTag' = tag
            /\ images' = images \cup {latest}
            /\ dep' = IF /\ ~dep.force
                         /\ dep.is_running
                         /\ containers[SelfName].image = latest
                      THEN DeployExit([dep EXCEPT !.pull = "ok"], "already-latest", 0)
                      ELSE [dep EXCEPT !.pc = "up", !.pull = "ok"]
  /\ UNCHANGED <<dhost, containers, nextSerial, deployFrame>>

\* deploy 171-190: docker-compose up -d --remove-orphans
DeployUp ==
  /\ dep.pc = "up"
  /\ \E ok \in BOOLEAN :
       IF ok
       THEN /\ containers' = ComposeUp(containers, nextSerial, dhost.compose, localTag)
            /\ nextSerial' = ComposeUpSerial(containers, nextSerial,
                                             dhost.compose, localTag)
            /\ dep' = [dep EXCEPT !.ups = @ + 1, !.pc = "health", !.count = 0,
                                  !.phase = "deploy",
                                  !.timeout = DeployHealthTimeout,
                                  !.healthPhases = @ + 1]
       ELSE /\ \E stopped \in BOOLEAN :
                 containers' = IF stopped
                               THEN [containers EXCEPT ![SelfName].running = FALSE]
                               ELSE containers
            /\ UNCHANGED nextSerial
            /\ dep' = IF AfterFailure(dep.is_running) = "exit"
                      THEN DeployExit([dep EXCEPT !.ups = @ + 1], "deploy-failed", 1)
                      ELSE [dep EXCEPT !.ups = @ + 1,
                                       !.pc = AfterFailure(dep.is_running)]
  /\ UNCHANGED <<dhost, localTag, images, deployFrame>>

\* check_health 39-57, one pass of the loop, with what its caller does
\* with the result (deploy 194-217, rollback 121-127)
HealthProbe ==
  /\ dep.pc = "health"
  /\ \E ok \in (IF ServiceRunning(containers) THEN BOOLEAN ELSE {FALSE}) :
       dep' =
         IF ok
         THEN IF dep.phase = "deploy"
              THEN DeployExit([dep EXCEPT !.health1 = "ok"], "healthy", 0)
              ELSE DeployExit(dep, "rolled-back", AfterRollback(TRUE))
         ELSE IF NextCount(dep.count) < dep.timeout
              THEN [dep EXCEPT !.count = NextCount(dep.count)]
              ELSE IF dep.phase = "rollback"
                   THEN DeployExit([dep EXCEPT !.count = NextCount(dep.count)],
                                   "dual-failure", AfterRollback(FALSE))
                   ELSE IF AfterFailure(dep.is_running) = "exit"
                        THEN DeployExit([dep EXCEPT !.count = NextCount(dep.count),
                                                    !.health1 = "failed"],
                                        "unhealthy", 1)
                        ELSE [dep EXCEPT !.count = NextCount(dep.count),
                                         !.health1 = "failed",
                                         !.pc = AfterFailure(dep.is_running)]
  /\ UNCHANGED <<dhost, engineVars, deployFrame>>

\* rollback 89-111: the latest backup is looked up, docker-compose down || true
RollbackDown ==
  /\ dep.pc = "rb_down"
  /\ IF dhost.latest = 0
     THEN /\ dep' = DeployExit([dep EXCEPT !.rollbacks = @ + 1], "dual-failure",
                             AfterRollback(FALSE))
          /\ UNCHANGED containers
     ELSE /\ dep' = [dep EXCEPT !.rollbacks = @ + 1, !.pc = "rb_up"]
          /\ \E ok \in BOOLEAN :
               containers' = IF ok THEN [containers EXCEPT ![SelfName] = Absent]
                             ELSE containers
  /\ UNCHANGED <<dhost, nextSerial, localTag, images, deployFrame>>

\* rollback 113-119: the compose file is restored and brought up; inside
\* `if rollback` a failing command does not end the script
RollbackUp ==
  /\ dep.pc = "rb_up"
  /\ \E restored \in BOOLEAN, ok \in BOOLEAN :
       LET file == IF restored /\ dhost.backup.compose # "none"
                   THEN dhost.backup.compose ELSE dhost.compose IN
       /\ dhost' = [dhost EXCEPT !.compose = file]
       /\ containers' = IF ok THEN ComposeUp(containers, nextSerial, file, localTag)
                        ELSE containers
       /\ nextSerial' = IF ok THEN ComposeUpSerial(containers, nextSerial, file, localTag)
                        ELSE nextSerial
  /\ dep' = [dep EXCEPT !.pc = "health", !.count = 0, !.phase = "rollback",
                        !.timeout = DefaultHealthTimeout,
                        !.healthPhases = @ + 1]
  /\ UNCHANGED <<localTag, images, deployFrame>>

\* the hosts deploy is run on: the service running, stopped or absent, the
\* compose file as shipped or naming the published image, the registry with
\* or without a newer image, deploy or deploy force
ServiceStates(compose) ==
  LET c == ComposeContainer(SerialOf(SelfName),
                            ComposeImage(compose, [r \in Refs |-> 1])) IN
  {c, [c EXCEPT !.running = FALSE], Absent}
InitDeploy ==
  \E compose \in {"build", "image"}, force \in BOOLEAN :
    /\ UpdaterInitFrom({Scenario(S, Defaults) : S \in {{}, {SelfRef}}}, "idle",
                       {[InitialContainers EXCEPT ![SelfName] = c] :
                          c \in ServiceStates(compose)})
    /\ SynthIdle
    /\ LifeIdle
    /\ SigIdle
    /\ FileIdle
    /\ WebIdle
    /\ dhost = [NoHost EXCEPT !.compose = compose]
    /\ dep = [NoDeploy EXCEPT !.pc = "start", !.force = force]

NextDeploy ==
  \/ DeployStart
  \/ backup_current_state
  \/ DeployPull
  \/ DeployUp
  \/ HealthProbe
  \/ RollbackDown
  \/ RollbackUp

SpecDeploy == InitDeploy /\ [][NextDeploy]_vars
SpecDeployFair == SpecDeploy /\ WF_vars(NextDeploy)

\* ------------------------------------------- signals to the updater
\* (startup.sh 28 replaces the container's first process by the updater
\* script; the script installs no trap, and the kernel drops a signal sent
\* to the first process of a PID namespace that has no handler for it)
MaxSignals == 1

\* kill -USR1 1 (README 284) while the updater process is alive
Signal ==
  /\ sig.count < MaxSignals
  /\ pc["sched"] \notin {"idle", "dead"}
  /\ sig' = [count |-> sig.count + 1, at |-> pc["sched"]]
  /\ UNCHANGED <<engineVars, updaterVars, faults, synthVars, lifeVars,
                 deployVars, fileVars, webVars>>

NextSignal ==
  \/ Document("sched")
  \/ SelectContainers("sched")
  \/ NextContainer("sched")
  \/ Pull("sched")
  \/ Approach("sched")
  \/ Backup("sched")
  \/ Stop("sched")
  \/ Remove("sched")
  \/ Create("sched")
  \/ Start("sched")
  \/ Cleanup("sched")
  \/ Wake("sched")
  \/ Signal

SpecSignal == Init /\ [][NextSignal]_vars

\* ----------------------------------------- the inventory file on disk
\* (document_containers replacing it, getInventoryContainers reading it)
MaxEntries == 2

\* JSON values a file can hold where the inventory is expected
StringName(t) == [type |-> "string", text |-> t]
MissingName == [type |-> "missing", text |-> <<>>]
NumberName == [type |-> "number", text |-> <<"7">>]
Entry(type, name, id) == [type |-> type, name |-> name, id |-> id]
EntryValues ==
  {Entry("object", StringName(<<"/", "web">>), 1),
   Entry("object", StringName(<<"db">>), 2),
   Entry("object", MissingName, 3),
   Entry("object", NumberName, 4),
   Entry("null", MissingName, 0)}
ListFile(es) == [kind |-> "json", type |-> "list", entries |-> es]
OtherJson(type) == [kind |-> "json", type |-> type, entries |-> <<>>]
InvalidFile == [kind |-> "invalid", type |-> "none", entries |-> <<>>]
\* a file that holds the first entries of a document only
PartialFile(es) == [kind |-> "partial", type |-> "none", entries |-> es]
FileValues ==
  {NoFile, InvalidFile}
  \cup {OtherJson(t) : t \in {"object", "null", "number", "string"}}
  \cup {ListFile(es) : es \in UNION {[1..k -> EntryValues] : k \in 0..MaxEntries}}

\* the result of a block of JavaScript: a value or an exception
Thrown == [threw |-> TRUE, value |-> <<>>]
Returned(v) == [threw |-> FALSE, value |-> v]

\* c.name.replace(/^\//, ''): a TypeError unless c is an object whose name
\* is a string
MapThrows(c) == c.type # "object" \/ c.name.type # "string"
MapEntry(c) == [id |-> c.id, name |-> StripSlash(c.name.text)]

\* the try block after existsSync: readFileSync, JSON.parse, containers.map
TryRead(f) ==
  IF f.kind = "absent" THEN Thrown                     \* ENOENT
  ELSE IF f.kind # "json" THEN Thrown                  \* SyntaxError
  ELSE IF f.type # "list" THEN Thrown                  \* no map function
  ELSE IF \E i \in DOMAIN f.entries : MapThrows(f.entries[i]) THEN Thrown
  ELSE Returned([i \in DOMAIN f.entries |-> MapEntry(f.entries[i])])

\* catch (error) { console.error(...); return []; }
Catch_Rethrow(r) == r
Catch(r) == IF r.threw THEN Returned(<<>>) ELSE r

\* getInventoryContainers 73-75: fs.existsSync
ReadExists ==
  /\ reader.pc \in {"idle", "done"}
  /\ reader' = IF invFile.kind = "absent"
               THEN [pc |-> "done", file |-> invFile, threw |-> FALSE,
                     result |-> <<>>, during |-> writer.pc]
               ELSE [reader EXCEPT !.pc = "read"]
  /\ UNCHANGED <<invFile, writer, engineVars, updaterVars, faults, synthVars,
                 lifeVars, deployVars, sigVars, webVars>>

\* getInventoryContainers 77-95: the file is read, parsed and mapped
ReadFile ==
  /\ reader.pc = "read"
  /\ LET r == Catch(TryRead(invFile)) IN
       reader' = [pc |-> "done", file |-> invFile, threw |-> r.threw,
                  result |-> r.value, during |-> writer.pc]
  /\ UNCHANGED <<invFile, writer, engineVars, updaterVars, faults, synthVars,
                 lifeVars, deployVars, sigVars, webVars>>

\* the entry document_containers writes for one container
EntryOf(rec) == Entry("object", StringName(rec.name), rec.id.serial)
SnapshotFile(inv) == ListFile([i \in DOMAIN inv |-> EntryOf(inv[i])])

\* document_containers 133-221: the snapshot is built in a file of mktemp,
\* which lies in /tmp of the container, not on the volume of the inventory
WriterBuild ==
  /\ writer.pc = "idle"
  /\ \E self_id \in SelfIdReadings(containers) :
       writer' = [pc |-> "built", prev |-> invFile, written |-> 0,
                  temp |-> SnapshotFile(document_containers(containers, self_id))]
  /\ UNCHANGED <<invFile, reader, engineVars, updaterVars, faults, synthVars,
                 lifeVars, deployVars, sigVars, webVars>>

\* mv 222 across file systems: rename fails, the old file is unlinked
MvUnlink ==
  /\ writer.pc = "built"
  /\ invFile' = NoFile
  /\ writer' = [writer EXCEPT !.pc = "unlinked"]
  /\ UNCHANGED <<reader, engineVars, updaterVars, faults, synthVars,
                 lifeVars, deployVars, sigVars, webVars>>

\* mv 222: the new file is created empty and filled block by block
MvCopy ==
  /\ writer.pc \in {"unlinked", "copying"}
  /\ IF writer.pc = "unlinked"
     THEN /\ invFile' = PartialFile(<<>>)
          /\ writer' = [writer EXCEPT !.pc = "copying"]
     ELSE LET n == writer.written + 1 IN
          IF n < Len(writer.temp.entries)
          THEN /\ invFile' = PartialFile(SubSeq(writer.temp.entries, 1, n))
               /\ writer' = [writer EXCEPT !.written = n]
          ELSE /\ invFile' = writer.temp
               /\ writer' = [writer EXCEPT !.written = Len(writer.temp.entries),
                                           !.pc = "copied"]
  /\ UNCHANGED <<reader, engineVars, updaterVars, faults, synthVars,
                 lifeVars, deployVars, sigVars, webVars>>

\* mv 222: the temporary file is removed
MvRemoveSource ==
  /\ writer.pc = "copied"
  /\ writer' = [writer EXCEPT !.pc = "done"]
  /\ UNCHANGED <<invFile, reader, engineVars, updaterVars, faults, synthVars,
                 lifeVars, deployVars, sigVars, webVars>>

InitFile ==
  /\ UpdaterInit({Scenario({}, Defaults)}, "idle")
  /\ SynthIdle
  /\ LifeIdle
  /\ DeployIdle
  /\ SigIdle
  /\ WebIdle
  /\ invFile \in FileValues
  /\ writer = [NoWriter EXCEPT !.pc = "idle"]
  /\ reader = [NoReader EXCEPT !.pc = "idle"]

NextFile ==
  \/ ReadExists
  \/ ReadFile
  \/ WriterBuild
  \/ MvUnlink
  \/ MvCopy
  \/ MvRemoveSource

SpecFile == InitFile /\ [][NextFile]_vars

\* ------------------------------------- update status in the web interface
\* (getContainersWithUpdateStatus, checkImageUpdateStatus, checkForUpdates)
MaxChecks == 2      \* rounds of getContainersWithUpdateStatus
MaxLookups == 1     \* calls of checkForUpdates

statusFrame == <<containers, nextSerial, updaterVars, synthVars, lifeVars,
                 deployVars, sigVars, fileVars, probe>>

\* DockerService.isLocallyBuiltImage, called by checkImageUpdateStatus: no
\* "/" and some "_" or "-"
isLocallyBuiltImage(image) ==
  LET t == Range(image) IN "/" \notin t /\ ("_" \in t \/ "-" \in t)

\* checkForUpdates 267: includes('_') || includes('-') && !includes('/')
CfuIsLocallyBuilt(currentImage) ==
  LET t == Range(currentImage) IN
  "_" \in t \/ ("-" \in t /\ "/" \notin t)
\* checkForUpdates 294: no "/" and no match of ^[a-zA-Z0-9][a-zA-Z0-9_.-]*$
PlainName(currentImage) ==
  /\ currentImage # <<>>
  /\ currentImage[1] \notin {"_", ".", "-"}
  /\ \A i \in DOMAIN currentImage :
       currentImage[i] \notin {":", "/", " ", "=", "'", "dq"}
CfuNoRegistry(currentImage) ==
  "/" \notin Range(currentImage) /\ ~PlainName(currentImage)

\* what a call of the engine made for a status can end in
StatusOutcomes(failures) ==
  {"ok"} \cup (IF faults < MaxFaults THEN failures ELSE {})
StatusFault(o) == faults' = IF o = "ok" THEN faults ELSE faults + 1

UpdateStatus(c, current, latest, available, local, error) ==
  [name |-> c.name, recordedImageId |-> c.imageId, currentImageId |-> current,
   latestImageId |-> latest, updateAvailable |-> available,
   isLocallyBuilt |-> local, error |-> error]
Pulled(path, image) == [path |-> path, image |-> image]

\* getContainersWithUpdateStatus 51-54: the inventory is read
GetContainersWithUpdateStatus ==
  /\ stat.pc \in {"idle", "done"}
  /\ stat.checks < MaxChecks
  /\ LET cs == getInventoryContainers(inventory) IN
       stat' = [stat EXCEPT !.pc = IF cs = <<>> THEN "done" ELSE "checking",
                            !.list = cs, !.idx = 1, !.statuses = <<>>,
                            !.checks = @ + 1]
  /\ UNCHANGED <<engineVars, faults, statusFrame>>

\* checkImageUpdateStatus 98-158 for the next container of the list
CheckImageUpdateStatus ==
  /\ stat.pc = "checking"
  /\ LET c == stat.list[stat.idx]
         r == RefOf(c.image)
         currentId == ImageId(r, localTag[r])
         latestId == ImageId(r, registry[r])
         next(st, pulled) ==
           [stat EXCEPT !.statuses = Append(@, st),
                        !.idx = @ + 1,
                        !.pc = IF stat.idx = Len(stat.list) THEN "done" ELSE @,
                        !.pulls = IF pulled THEN @ \cup {Pulled("status", c.image)}
                                  ELSE @]
     IN \E o \in StatusOutcomes({"inspect-failed", "pull-failed"}) :
          /\ StatusFault(o)
          /\ IF o = "inspect-failed"
             THEN /\ stat' = next(UpdateStatus(c, c.imageId, NoImage, FALSE,
                                               FALSE, TRUE), FALSE)
                  /\ UNCHANGED <<localTag, images>>
             ELSE IF isLocallyBuiltImage(c.image)
             THEN /\ stat' = next(UpdateStatus(c, currentId, currentId, FALSE,
                                               TRUE, FALSE), FALSE)
                  /\ UNCHANGED <<localTag, images>>
             ELSE IF o = "pull-failed"
             THEN /\ stat' = next(UpdateStatus(c, currentId, NoImage, FALSE,
                                               FALSE, TRUE), TRUE)
                  /\ UNCHANGED <<localTag, images>>
             ELSE /\ stat' = next(UpdateStatus(c, currentId, latestId,
                                               currentId # latestId, FALSE,
                                               FALSE), TRUE)
                  /\ localTag' = [localTag EXCEPT ![r] = registry[r]]
                  /\ images' = images \cup {latestId}
  /\ UNCHANGED statusFrame

\* the answer of checkForUpdates, or the error it throws
Lookup(n, kind, failure, current, latest, available, local) ==
  [name |-> n, outcome |-> kind, pullFailure |-> failure,
   error |-> (kind = "thrown"),
   currentImageId |-> current, latestImageId |-> latest,
   updateAvailable |-> available, isLocallyBuilt |-> local]
LocallyBuiltId == ImageId("locally-built", 0)

\* checkForUpdates 246-390 for the container n
CheckForUpdates(n) ==
  /\ stat.pc # "off"
  /\ stat.lookups < MaxLookups
  /\ containers[n].exists
  /\ LET r == containers[n].image.ref
         currentImage == RefText(r)
         currentId == ImageId(r, localTag[r])
         latestId == ImageId(r, registry[r])
         done(res, pulled) ==
           [stat EXCEPT !.lookups = @ + 1, !.cfu = <<res>>,
                        !.pulls = IF pulled
                                  THEN @ \cup {Pulled("lookup", currentImage)}
                                  ELSE @]
     IN \E o \in StatusOutcomes({"inspect-failed", "not-found", "denied",
                                 "timeout"}) :
          /\ StatusFault(o)
          /\ IF CfuIsLocallyBuilt(currentImage)
             THEN /\ stat' = done(Lookup(n, "answer", "none", LocallyBuiltId,
                                         LocallyBuiltId, FALSE, TRUE), FALSE)
                  /\ UNCHANGED <<localTag, images>>
             ELSE IF o = "inspect-failed"
             THEN /\ stat' = done(Lookup(n, "thrown", "none", NoImage, NoImage,
                                         FALSE, FALSE), FALSE)
                  /\ UNCHANGED <<localTag, images>>
             ELSE IF CfuNoRegistry(currentImage)
             THEN /\ stat' = done(Lookup(n, "answer", "none", currentId,
                                         currentId, FALSE, TRUE), FALSE)
                  /\ UNCHANGED <<localTag, images>>
             ELSE IF o \in {"not-found", "denied"}
             THEN /\ stat' = done(Lookup(n, "answer", o, currentId, currentId,
                                         FALSE, TRUE), TRUE)
                  /\ UNCHANGED <<localTag, images>>
             ELSE IF o = "timeout"
             THEN /\ stat' = done(Lookup(n, "thrown", o, currentId, NoImage,
                                         FALSE, FALSE), TRUE)
                  /\ UNCHANGED <<localTag, images>>
             ELSE /\ stat' = done(Lookup(n, "answer", "none", currentId,
                                         latestId, currentId # latestId,
                                         FALSE), TRUE)
                  /\ localTag' = [localTag EXCEPT ![r] = registry[r]]
                  /\ images' = images \cup {latestId}
  /\ UNCHANGED statusFrame

\* names the dashboard asks updates for
StatusReqNames == {<<"web">>, <<"app">>}

InitStatus ==
  /\ UpdaterInit(Scenarios, "doc")
  /\ SynthIdle
  /\ LifeIdle
  /\ DeployIdle /\ SigIdle /\ FileIdle
  /\ stat = [NoStat EXCEPT !.pc = "idle"]
  /\ probe = NoProbe

NextStatus ==
  \/ Document("sched")
  \/ GetContainersWithUpdateStatus
  \/ CheckImageUpdateStatus
  \/ \E n \in Names : CheckForUpdates(n)
  \/ \E containerName \in StatusReqNames : UpdateContainer(containerName)
  \/ UpdateContainerPull

SpecStatus == InitStatus /\ [][NextStatus]_vars

\* ----------------------------------------- the label filters, on their own
MaxLabels == 2      \* labels of a probed container

probeFrame == <<engineVars, updaterVars, faults, synthVars, lifeVars,
                deployVars, sigVars, fileVars, stat>>
SeqsUpTo(S, n) == UNION {[1..k -> S] : k \in 0..n}

\* the label keys of the README and of the code, and one of the user's own
ProbeKeys == {"auto-update", "com.your.auto-update",
              "com.containerpulse.auto-update",
              "com.centurylinklabs.watchtower.enable", "tier"}
ProbeLabels == {Lbl(k, <<v>>) : k \in ProbeKeys, v \in {"true", "false"}}

InitLabels ==
  /\ UpdaterInit({Scenario({}, Defaults)}, "idle")
  /\ SynthIdle /\ LifeIdle
  /\ DeployIdle /\ SigIdle /\ FileIdle
  /\ stat = NoStat
  /\ probe \in {[kind |-> "labels", labels |-> ls] :
                  ls \in SeqsUpTo(ProbeLabels, MaxLabels)}

\* what the inventory, the cycle and updateContainer make of the labels
FilterLabels ==
  /\ probe.kind = "labels"
  /\ probe' = [kind |-> "filtered", labels |-> probe.labels,
               inventory |-> DocAutoUpdate(probe.labels),
               cycle |-> JqSelectAutoUpdate(probe.labels),
               manual |-> hasAutoUpdateLabel(probe.labels)]
  /\ UNCHANGED probeFrame

NextLabels == FilterLabels
SpecLabels == InitLabels /\ [][NextLabels]_vars

\* --------------------------- the cycle on hosts with and without candidates
\* a host none of whose containers carries a label
QuietContainers == [n \in Names |-> [InitialContainer(n) EXCEPT !.labels = <<>>]]

InitCycle ==
  /\ UpdaterInitFrom(Scenarios, "doc", {InitialContainers, QuietContainers})
  /\ SynthIdle
  /\ LifeIdle
  /\ AuxIdle

SpecCycle == InitCycle /\ [][Next]_vars

\* -------------------------------------- the image classifiers, on their own
MaxRefLen == 3      \* lexemes of a probed image reference

\* the characters the classifiers look at, and a word of other characters
RefLexemes == {"/", "_", "-", ".", ":", "a"}

InitClassify ==
  /\ UpdaterInit({Scenario({}, Defaults)}, "idle")
  /\ SynthIdle /\ LifeIdle
  /\ DeployIdle /\ SigIdle /\ FileIdle
  /\ stat = NoStat
  /\ probe \in {[kind |-> "reference", ref |-> r] :
                  r \in SeqsUpTo(RefLexemes, MaxRefLen)}

\* the reference as the script and as checkForUpdates classify it
Classify ==
  /\ probe.kind = "reference"
  /\ probe' = [kind |-> "classified", ref |-> probe.ref,
               script |-> is_locally_built_image(probe.ref),
               lookup |-> CfuIsLocallyBuilt(probe.ref),
               unpulled |-> (CfuIsLocallyBuilt(probe.ref)
                             \/ CfuNoRegistry(probe.ref))]
  /\ UNCHANGED probeFrame

NextClassify == Classify
SpecClassify == InitClassify /\ [][NextClassify]_vars

\* --------------------------------------- check_self_update, on its own
\* names containers of the host go by, and what `hostname` prints in the
\* updater's container: the short id the engine sets by default, or a host
\* name the deployment configured
SelfCheckNames == {<<"containerpulse">>, <<"pulse">>, <<"web">>, <<"db">>,
                   <<"updater">>}
DefaultHostname == <<"3f2a9c1d7e4b">>
SelfCheckHostnames == {DefaultHostname} \cup SelfCheckNames

\* [ "$container_name" == "$my_name" ] || [ "$container_name" == "containerpulse" ]
check_self_update(container_name, my_name) ==
  container_name = my_name \/ container_name = <<"containerpulse">>

\* the updater runs in the container named own, whose host name is host
InitSelfCheck ==
  /\ UpdaterInit({Scenario({}, Defaults)}, "idle")
  /\ SynthIdle /\ LifeIdle
  /\ DeployIdle /\ SigIdle /\ FileIdle
  /\ stat = NoStat
  /\ probe \in {[kind |-> "target", own |-> o, hostname |-> h, name |-> t] :
                  o \in SelfCheckNames, h \in SelfCheckHostnames,
                  t \in SelfCheckNames}

CheckSelfUpdate ==
  /\ probe.kind = "target"
  /\ probe' = [probe EXCEPT !.kind = "checked"] @@
              [self |-> check_self_update(probe.name, probe.hostname)]
  /\ UNCHANGED probeFrame

NextSelfCheck == CheckSelfUpdate
SpecSelfCheck == InitSelfCheck /\ [][NextSelfCheck]_vars

\* ------------------------------------------ engine calls that never return
\* docker pull "$image_name" is run as it is, with no timeout around it: a
\* pull the registry never answers keeps the script inside the call
PullHangs(p) ==
  /\ pc[p] = "pull"
  /\ faults < MaxFaults
  /\ faults' = faults + 1
  /\ ops' = [ops EXCEPT ![p] = @ \cup {Op(list[p][idx[p]], "pull", cdata[p])}]
  /\ pc' = [pc EXCEPT ![p] = "hung"]
  /\ UNCHANGED <<sideVars, engineVars, registry, env, inventory, backups, cycle,
                 list, idx, cdata, newImg, newCid, web, requests, webOps,
                 outcome, notes, backupOk>>

NextHang ==
  \/ Document("sched")
  \/ SelectContainers("sched")
  \/ NextContainer("sched")
  \/ Pull("sched")
  \/ PullHangs("sched")
  \/ Approach("sched")
  \/ Backup("sched")
  \/ Stop("sched")
  \/ Remove("sched")
  \/ Create("sched")
  \/ Start("sched")
  \/ Cleanup("sched")
  \/ Wake("sched")

SpecHang == Init /\ [][NextHang]_vars

\* ================================================================ claims
\* engine calls that change or replace a container
Recreating == {"stop", "rm", "create", "start"}
AllOps == UNION {ops[p] : p \in Procs} \cup webOps
\* a label of a recognized key with value "true"
Eligible(labels) ==
  \E k \in updateLabels : LabelValue(labels, k) = <<"true">>
OutcomesOf(p) == {outcome[p][i] : i \in DOMAIN outcome[p]}

\* ---------------------------------------------------------------- C1
InventoryNames == {Named(StripSlash(inventory[i].name)) : i \in DOMAIN inventory}
ShouldBeListed ==
  {n \in Names : /\ containers[n].exists /\ containers[n].running
                 /\ Eligible(containers[n].labels)
                 /\ n # SelfName}
InventoryExact == InventoryNames = ShouldBeListed

\* C1: after every completed run of document_containers the inventory holds
\* a record for a container iff it is running, carries a recognized
\* eligibility label with value "true" and is not the updater's own container.
C1_InventoryIffEligibleNotSelf ==
  [][\A p \in Procs : Document(p) => InventoryExact']_vars

\* ---------------------------------------------------------------- C2
\* C2: every pull, stop, rm, create and start, of the script and of
\* updateContainer, names a container that is in the inventory with a
\* recognized eligibility label equal to "true"; an updateContainer that
\* ends with "not found" or "no label" has issued no engine call and has
\* not started the script.
C2_OnlyListedEligible ==
  /\ \A o \in AllOps : o.listed /\ Eligible(o.labels)
  /\ web.result \in {"error-not-found", "error-no-label"} =>
       webOps = {} /\ cycle["manual"] = 0

C2_Witness ==
  /\ web.result = "error-no-label"
  /\ web.name = <<"note">>
  /\ \E o \in ops["sched"] : o.op = "start" /\ o.name = <<"web">>

\* ---------------------------------------------------------------- C3
AfterComparison == {"approach", "backup", "stop", "rm", "create", "start",
                    "cleanup"}
NotifyLabelled == {n \in Names :
  LabelValue(InitialContainer(n).labels, "update-approach") = <<"notify">>}
Notified(n) ==
  \E nt \in notes : /\ nt.name = <<n>>
                    /\ nt.current = ImageId(ImageOf(n), 1)
                    /\ nt.candidate = ImageId(ImageOf(n), 2)
NotifiedResults ==
  {n \in Names : \E p \in Procs : Result(<<n>>, "notified") \in OutcomesOf(p)}
SmtpFailed(n) == \E nt \in notes : nt.name = <<n>> /\ nt.via = "smtp-error-log"

C6_ManualUpdateOfNotifyContainer ==
  \A n \in NotifyLabelled :
    (/\ web.name = <<n>> /\ web.pc = "exec"
     /\ pc["manual"] = "sleep"
     /\ faults = 0)
    => containers[n].image = ImageId(ImageOf(n), 2)

\* ---------------------------------------------------------------- C7
\* ports with their bindings, one entry per binding
RECURSIVE RecordedBindings(_)
RecordedBindings(ports) ==
  IF ports = <<>> THEN <<>>
  ELSE [i \in DOMAIN Head(ports).bindings |->
          Port(Head(ports).port, <<Head(ports).bindings[i]>>)]
       \o RecordedBindings(Tail(ports))
RecordedRestart(rp) ==
  [Name |-> rp.Name,
   MaximumRetryCount |-> IF rp.Name = <<"on-failure">>
                         THEN rp.MaximumRetryCount ELSE <<"0">>]
Preserved(rec, ps) ==
  LET c == Created(ps, 0, NoImage) IN
  /\ c.ports = RecordedBindings(rec.ports)
  /\ c.mounts = rec.mounts
  /\ c.env = rec.env
  /\ Range(c.labels) = Range(rec.labels)
  /\ RecordedRestart(c.restartPolicy) = RecordedRestart(rec.restartPolicy)

\* C7: the creation parameters synthesized for a ContainerRecord carry
\* exactly its port bindings, mounts, environment entries, labels and
\* restart policy, values with whitespace included.
C7_SynthesisPreservesRecord ==
  params # NoParams => Preserved(record, params)

\* ---------------------------------------------------------------- C8
InLoop == {"loop", "pull", "approach", "backup", "stop", "rm", "create",
           "start", "cleanup"}
C9_StopOnlyAfterBackupWritten ==
  \A p \in Procs : \A o \in ops[p] : o.op = "stop" => o.name \in backupOk[p]

\* ---------------------------------------------------------------- C10
\* C10: the script issues no stop, rm or create on the container it runs
\* in, and its processes are not ended by a stop of that container.
C10_NoInProcessSelfRecreation ==
  /\ ~\E o \in AllOps : o.name = <<SelfName>> /\ o.op \in {"stop", "rm", "create"}
  /\ \A p \in Procs : pc[p] # "dead"

\* ---------------------------------------------------------------- C11
\* C11: once handle_self_update has launched the restart script and the
\* updater process has exited, the restart script is still running or has
\* run to its end.
C11_DeferredActionOutlivesExit ==
  updater = "exited" => deferred \in {"sleep", "rm", "up", "cleanup", "done"}

\* ---------------------------------------------------------------- C16
\* C16: the watchdog issues no engine call after a poll that found the
\* updater container running; after a poll that found it missing its first
\* call is a plain start, and it removes and redeploys only after that start
\* failed and the pull that followed succeeded.
C16_WatchdogStartsBeforeRedeploy ==
  /\ wd.seen = "present" => wd.ops = <<>> /\ wd.pc \in {"sleep", "poll"}
  /\ wd.ops # <<>> => wd.ops[1].op = "start"
  /\ \A i \in DOMAIN wd.ops : wd.ops[i].op \in {"rm", "deploy"} =>
       /\ wd.ops[1] = WdCall("start", FALSE)
       /\ wd.ops[2] = WdCall("pull", TRUE)
       /\ i > 2

C16_Witness ==
  /\ wd.seen = "absent"
  /\ Len(wd.ops) = 4
  /\ wd.ops[3].op = "rm" /\ wd.ops[4].op = "deploy"
  /\ containers[SelfName].running
  /\ containers[SelfName].serial >= 8

\* ---------------------------------------------------------------- C12
Deploying == dep.pc = "up" \/ dep.ups > 0
\* C12 as stated: in every run of deploy, docker-compose up is reached only
\* after backup_current_state completed successfully in the same run,
\* whether or not the service was running when deploy started.
C12_DeployingOnlyAfterBackup == Deploying => dep.backupDone
\* C12 amended: when the service was running when deploy started,
\* docker-compose up is reached only after backup_current_state completed
\* successfully in the same run; when it was not running, no backup is
\* taken and docker-compose up is reached without one.
C12_DeployingAfterBackupIfRunning ==
  /\ Deploying /\ dep.is_running => dep.backupDone /\ dhost.latest > 0
  /\ ~dep.is_running => ~dep.backupDone /\ dhost.backup = NoBackup
C12_Witness ==
  /\ dep.ups = 1 /\ dep.is_running /\ dep.backupDone
  /\ dhost.backup.compose = dhost.compose

\* ---------------------------------------------------------------- C13
RollbackEntered == dep.pc = "rb_down" \/ dep.rollbacks > 0
\* C13 as stated: when the health check after the deployment ends without
\* a successful probe, rollback is executed; a successful probe ends the
\* run as healthy with no rollback.
C13_ExhaustionLeadsToRollback ==
  /\ dep.health1 = "failed" => RollbackEntered
  /\ dep.health1 = "ok" =>
       ~RollbackEntered /\ dep.pc = "exit" /\ dep.report = "healthy"
\* C13 amended: when the health check after the deployment ends without a
\* successful probe, rollback is executed if the service was running when
\* deploy started, and otherwise the run ends in failure without a
\* rollback; a successful probe ends the run as healthy with no rollback.
C13_ExhaustionLeadsToRollbackIfRunning ==
  /\ dep.health1 = "failed" /\ dep.is_running => RollbackEntered
  /\ dep.health1 = "failed" /\ ~dep.is_running =>
       ~RollbackEntered /\ dep.pc = "exit" /\ dep.status = 1
  /\ dep.health1 = "ok" =>
       ~RollbackEntered /\ dep.pc = "exit" /\ dep.report = "healthy"
                        /\ dep.status = 0
C13_Witness ==
  /\ dep.health1 = "failed" /\ dep.is_running /\ dep.rollbacks = 1
  /\ dep.count = DeployHealthTimeout \/ dep.phase = "rollback"

C15_RollbackRestoresBackedUpImage ==
  dep.report = "rolled-back" =>
    /\ ServiceRunning(containers)
    /\ dhost.compose = dhost.backup.compose
    /\ containers[SelfName].image = dhost.backup.inspectImage

\* ---------------------------------------------------------------- C17
SignalArrives == sig'.count = sig.count + 1
\* C17: a USR1 signal that reaches the updater while the main loop sleeps
\* ends the sleep and starts the next cycle before the interval is over; a
\* signal that arrives during a cycle starts no additional cycle.
C17_SignalStartsCycleEarly ==
  [][SignalArrives =>
       IF pc["sched"] = "sleep"
       THEN pc'["sched"] = "doc" /\ cycle'["sched"] = cycle["sched"] + 1
       ELSE UNCHANGED <<pc, cycle>>]_vars

\* ---------------------------------------------------------------- C18
\* C18: a manual update or webhook request for a container causes stop,
\* remove, create and start calls only for that container.
C18_ManualUpdateTouchesOnlyItsContainer ==
  \A o \in ops["manual"] : o.op \in Recreating => o.name = web.name

\* ---------------------------------------------------------------- C19
\* an entry with a name: an object whose name is a string
HasName(e) == e.type = "object" /\ e.name.type = "string"
Malformed(f) ==
  \/ f.kind # "json"
  \/ f.type # "list"
  \/ \E i \in DOMAIN f.entries : ~HasName(f.entries[i])
\* C19: getInventoryContainers never fails: for a file that is absent, is
\* not valid JSON, is not a list or has an entry without a name (a string)
\* it returns the empty list, and otherwise one record per entry of the
\* file, in the order of the file.
C19_ReadNeverFails ==
  reader.pc = "done" =>
    /\ ~reader.threw
    /\ IF Malformed(reader.file)
       THEN reader.result = <<>>
       ELSE /\ Len(reader.result) = Len(reader.file.entries)
            /\ \A i \in DOMAIN reader.result :
                 /\ reader.result[i].id = reader.file.entries[i].id
                 /\ LET t == reader.file.entries[i].name.text IN
                      reader.result[i].name =
                        IF t # <<>> /\ t[1] = "/" THEN Tail(t) ELSE t
C19_Witness ==
  /\ reader.pc = "done"
  /\ reader.file.type = "list" /\ Len(reader.file.entries) = 2
  /\ ~HasName(reader.file.entries[2])
  /\ reader.result = <<>>

\* ---------------------------------------------------------------- C20
\* C20: a reader of the inventory file that runs while document_containers
\* replaces it finds the complete previous file or the complete new one.
C20_ReaderSeesWholeSnapshot ==
  reader.pc = "done" /\ reader.during \in {"built", "unlinked", "copying", "copied"}
    => reader.file \in {writer.prev, writer.temp}

\* the image reference of the container a name stands for
ImageOfName(t) == RefText(ImageOf(CHOOSE n \in Names : <<n>> = t))
\* the status entries and lookups whose pull failed or succeeded
PullFailedStatuses ==
  {st \in Range(stat.statuses) :
     st.error /\ Pulled("status", ImageOfName(st.name)) \in stat.pulls}
PullFailedLookups == {l \in Range(stat.cfu) : l.pullFailure # "none"}

\* ---------------------------------------------------------------- C21
\* C21: no pull is ever issued for an image classified as locally built,
\* neither by the scheduled cycle, nor by the status check of the
\* dashboard, nor by a manual update (updateContainer).
C21_NoPullOfLocallyBuilt ==
  /\ \A o \in AllOps :
       o.op = "pull" => ~is_locally_built_image(ImageOfName(o.name))
  /\ \A p \in stat.pulls : ~is_locally_built_image(p.image)

\* ---------------------------------------------------------------- C22
\* C22: when the pull of an image classified as coming from a registry
\* fails, the result is a cannot-determine status: no update available,
\* latest image id unknown, the error attached; and no recreation is
\* attempted. This holds for checkImageUpdateStatus, for checkForUpdates
\* and for updateContainer.
C22_PullFailureIsCannotDetermine ==
  /\ \A st \in PullFailedStatuses :
       ~st.updateAvailable /\ st.latestImageId = NoImage /\ st.error
  /\ \A l \in PullFailedLookups :
       /\ l.outcome = "answer"
       /\ ~l.updateAvailable /\ l.latestImageId = NoImage /\ ~l.isLocallyBuilt
  /\ web.result = "error-pull" => pc["manual"] = "idle"

\* ---------------------------------------------------------------- C23
\* C23: for every container of a registry image whose pull succeeds, the
\* dashboard reports updateAvailable exactly when the image id after the
\* pull differs from the image id recorded in the inventory, also when an
\* earlier check or cycle has already pulled the new image.
C23_UpdateAvailableAgainstInventory ==
  \A st \in Range(stat.statuses) :
    (~st.error /\ ~st.isLocallyBuilt) =>
      (st.updateAvailable <=> st.latestImageId # st.recordedImageId)

\* ---------------------------------------------------------------- C24
\* C24: a container whose only eligibility label is
\* com.containerpulse.auto-update=true is treated as eligible for updates
\* by the inventory, by the cycle and by updateContainer.
OnlyContainerpulseLabel(labels) ==
  /\ LabelValue(labels, "com.containerpulse.auto-update") = <<"true">>
  /\ \A i \in DOMAIN labels :
       labels[i].key \in {"com.containerpulse.auto-update", "tier"}
C24_ContainerpulseLabelIsEligible ==
  (probe.kind = "filtered" /\ OnlyContainerpulseLabel(probe.labels)) =>
    (probe.inventory /\ probe.cycle /\ probe.manual)

\* ---------------------------------------------------------------- C25
\* C25: when mail is enabled (with a recipient and sendmail at hand) and
\* the update of a container fails at its stop, remove, create or start
\* step, a mail about that container has been sent by the time the cycle
\* goes to sleep.
RecreationFailures == {"stop-failed", "remove-failed", "create-failed",
                       "start-failed"}
C25_FailureIsMailed ==
  \A p \in Procs : \A r \in OutcomesOf(p) :
    (/\ pc[p] = "sleep"
     /\ env.EMAIL_ENABLED /\ env.EMAIL_TO /\ env.sendmail
     /\ r.result \in RecreationFailures)
    => \E nt \in notes : nt.name = r.name

\* ---------------------------------------------------------------- C26
\* the step with which the cycle of p goes to sleep
EntersSleep(p) == pc[p] # "sleep" /\ pc'[p] = "sleep"
\* the containers the cycle of p has recreated
UpdatedIn(p) == {r.name : r \in {x \in OutcomesOf(p) : x.result = "updated"}}
\* the record of the inventory for t is that of the container created
\* during the run, on a pulled image
NewIdentity(inv, cs, t) ==
  LET rec == InventoryLookup(inv, t) IN
  /\ rec.id = FullId(cs[Named(t)].serial)
  /\ cs[Named(t)].serial >= 8
  /\ rec.imageId = cs[Named(t)].image
  /\ rec.imageId.version >= 2

C27_LocallyBuiltIffNoSlashAndSeparator ==
  probe.kind = "classified" =>
    (probe.script <=>
       /\ "/" \notin Range(probe.ref)
       /\ Range(probe.ref) \cap {"_", "-"} # {})

C27_Witness ==
  /\ probe.kind = "classified"
  /\ probe.ref = <<"a", "_", "a">>
  /\ probe.script

\* ---------------------------------------------------------------- C28
\* C28: for every reference, the classification checkForUpdates makes is
\* the one is_locally_built_image makes.
C28_LookupClassifiesAsScript ==
  probe.kind = "classified" => probe.lookup = probe.script

\* ---------------------------------------------------------------- C29
\* C29: for a record with an entrypoint override or a command vector, the
\* synthesized parameters name the record's image and reapply the
\* entrypoint and the command: the new container's process is the
\* record's entrypoint followed by the record's command.
C29_EntrypointAndCommandReapplied ==
  (params # NoParams /\ (record.entrypoint # <<>> \/ record.command # <<>>)) =>
    /\ params.ok
    /\ params.image = record.image
    /\ params.entrypoint \o params.cmd = record.entrypoint \o record.command

\* ---------------------------------------------------------------- C30
\* C30: the synthesized parameters fix an address of the container on a
\* network only when the original container had that address configured
\* on it; an address the engine assigned yields no fixed-address parameter.
C30_FixedIpOnlyWhenStatic ==
  params # NoParams =>
    \A i \in DOMAIN params.ips :
      \E j \in DOMAIN record.network :
        /\ record.network[j].static
        /\ record.network[j].IPAddress = params.ips[i]

\* ---------------------------------------------------------------- C31
\* the calls of kind op the cycle of p has made for the name t
OpsOf(p, t, op) == {o \in ops[p] : o.name = t /\ o.op = op}
\* C31: the prior image is removed only when CLEANUP_OLD_IMAGES is on and
\* only after the replacement container was started with success; whether
\* the removal succeeds or fails, the container's outcome is "updated" and
\* the loop goes on with the next container.
C31_CleanupOnlyAfterStartAndHarmless ==
  /\ [](\A p \in Procs : \A o \in ops[p] :
          o.op = "rmi" =>
            /\ env.CLEANUP_OLD_IMAGES
            /\ OpsOf(p, o.name, "start") # {}
            /\ Result(o.name, "start-failed") \notin OutcomesOf(p))
  /\ [][\A p \in Procs :
          (pc[p] = "cleanup" /\ pc'[p] # "cleanup" /\ pc'[p] # "dead") =>
            /\ outcome'[p] = Append(outcome[p], Result(list[p][idx[p]], "updated"))
            /\ pc'[p] = "loop"
            /\ idx'[p] = idx[p] + 1
            /\ list'[p] = list[p]]_vars

\* the removal of web's prior image failed, the image being in use by the
\* container batch: the image is still there and web counts as updated
C31_Witness ==
  /\ OpsOf("sched", <<"web">>, "rmi") # {}
  /\ Result(<<"web">>, "updated") \in OutcomesOf("sched")
  /\ ImageId("nginx:latest", 1) \in images
  /\ containers["batch"].image = ImageId("nginx:latest", 1)
  /\ containers["web"].running
  /\ containers["web"].image = ImageId("nginx:latest", 2)

\* ---------------------------------------------------------------- C32
\* the scheduled cycle has failed to create or to start the container t
\* after removing it
Lost(t) ==
  \E f \in {"create-failed", "start-failed"} : Result(t, f) \in OutcomesOf("sched")
\* the scheduled cycle is about to create or to start the container t
Recreates(t) ==
  pc["sched"] \in {"create", "start"} /\ list["sched"][idx["sched"]] = t

\* C32: once the create or the start of a container has failed in a
\* scheduled cycle, neither the rest of that cycle nor a later scheduled
\* cycle creates or starts a container of that name again (nothing but the
\* updater acts on the host here).
C32_NoRetryAfterFailedRecreation ==
  \A n \in Names : [](Lost(<<n>>) => [](~Recreates(<<n>>)))

\* a later scheduled cycle has run to its sleep while web is still absent
C32_Witness ==
  /\ ~containers["web"].exists
  /\ cycle["sched"] = 2
  /\ pc["sched"] = "sleep"
  /\ faults = 1

\* ---------------------------------------------------------------- C33
\* the containers whose removal failed in the cycle of p (the stop before
\* it had succeeded)
RemoveFailedIn(p) ==
  {r.name : r \in {x \in OutcomesOf(p) : x.result = "remove-failed"}}

\* C33 as stated: when the removal of a container fails after its stop
\* succeeded, no container of that name exists (and so no replacement).
C33_FailedRemoveLeavesNothing ==
  \A p \in Procs : \A t \in RemoveFailedIn(p) : ~containers[Named(t)].exists

\* C33, amended: when the removal of a container fails after its stop
\* succeeded, the cycle issues neither create nor start for it; unless a
\* concurrent manual update has acted, the original container still
\* exists, stopped, on its old image, and no replacement exists.
C33_FailedRemoveLeavesStoppedOriginal ==
  \A p \in Procs : \A t \in RemoveFailedIn(p) :
    /\ OpsOf(p, t, "create") = {} /\ OpsOf(p, t, "start") = {}
    /\ (p = "sched" /\ cycle["manual"] = 0) =>
         /\ containers[Named(t)].exists
         /\ ~containers[Named(t)].running
         /\ containers[Named(t)].serial = SerialOf(Named(t))
         /\ containers[Named(t)].image = ImageId(ImageOf(Named(t)), 1)

C33_Witness ==
  /\ <<"web">> \in RemoveFailedIn("sched")
  /\ cycle["manual"] = 0
  /\ OpsOf("sched", <<"web">>, "stop") # {}
  /\ containers["web"].exists /\ ~containers["web"].running

\* ---------------------------------------------------------------- C34
\* the watchdog has just brought the updater up with docker run, there
\* being no compose file
WatchdogFallbackUsed ==
  /\ wd.pc = "sleep"
  /\ wd.ops # <<>>
  /\ wd.ops[Len(wd.ops)] = WdCall("deploy", TRUE)
  /\ ~files.hostCompose
  /\ containers[SelfName].exists

\* C34: the container the watchdog creates without a compose file has the
\* configuration of the restart script's fallback: same name, image,
\* restart policy, port, volumes, label and environment, secrets and
\* administrator credentials included.
C34_SameFallbackConfiguration ==
  WatchdogFallbackUsed =>
    LET c == containers[SelfName] IN
    c = [FallbackContainer(c.serial, ImageId(SelfRef, localTag[SelfRef]),
                           BaseEnv \o SecretEnv)
           EXCEPT !.running = c.running]

\* ---------------------------------------------------------------- C35
\* C35: check_self_update reports a self-update exactly when the container
\* named is the one the updater runs in, whatever that container is named
\* and whatever other container is named containerpulse.
C35_SelfExactlyWhenOwnContainer ==
  probe.kind = "checked" => (probe.self <=> probe.name = probe.own)

\* ---------------------------------------------------------------- C36
\* C36: a scheduled cycle reaches its sleep even when an engine call hangs;
\* a pull that never completes is ended by a timeout, counted as a pull
\* failure of its container, and the remaining containers are processed:
\* so the script is never left inside a pull with no step to take.
C36_HungPullIsEnded ==
  pc["sched"] = "hung" => ENABLED <<NextHang>>_vars

\* ---------------------------------------------------------------- C37
\* the scheduled cycle and the manual update have both begun to recreate
\* the container t, and both have run to their end with no call failing
\* for a reason of its own
BothRecreated(t) ==
  /\ \A p \in Procs : OpsOf(p, t, "stop") # {}
  /\ pc["sched"] = "sleep" /\ pc["manual"] = "sleep"
  /\ faults = 0

\* C37: when a scheduled cycle and a manual update both recreate a
\* container onto a new image, then however their stop, remove, create and
\* start calls interleave, once both have finished the container exists,
\* runs, and runs on the new image.
C37_ConcurrentRecreationConverges ==
  \A n \in Names :
    BothRecreated(<<n>>) =>
      /\ containers[n].exists /\ containers[n].running
      /\ containers[n].image = ImageId(ImageOf(n), 2)

\* one of the two has failed on the other's doing, and web runs all the same
C37_Witness ==
  /\ BothRecreated(<<"web">>)
  /\ \E p \in Procs : \E f \in StepFailures : Result(<<"web">>, f) \in OutcomesOf(p)
  /\ containers["web"].running

\* ---------------------------------------------------------------- C38
\* the updater container runs, on the image the registry now has
SelfOnNewImage ==
  /\ containers[SelfName].exists /\ containers[SelfName].running
  /\ containers[SelfName].image = ImageId(SelfRef, registry[SelfRef])

\* a step that removes a running updater container other than the one the
\* hand-off started in
RemovesRunningReplacement ==
  /\ containers[SelfName].exists /\ containers[SelfName].running
  /\ containers[SelfName].serial # SerialOf(SelfName)
  /\ ~containers'[SelfName].exists

\* C38: after a self-update hand-off, however the restart script and the
\* watchdog interleave, the updater container comes to run on the new image,
\* and neither of the two removes a running replacement (runs in which the
\* container crashes or an engine call fails of itself are left aside).
C38_HandOffConverges ==
  /\ (selfUpdates > 0) ~> (SelfOnNewImage \/ faults > 0)
  /\ [][~RemovesRunningReplacement]_vars

\* ---------------------------------------------------------------- C39
\* the run was not forced, found the service running and, after the pull,
\* on the image the tag now names; nothing was brought up
AlreadyOnPulledImage ==
  /\ dep.pull = "ok" /\ ~dep.force /\ dep.is_running
  /\ dep.ups = 0
  /\ containers[SelfName].image = ImageId(SelfRef, localTag[SelfRef])

\* C39: deploy ends with status 0 exactly when the non-forced run found the
\* running service already on the pulled image or the health check after
\* the release succeeded; every other run, one with a successful rollback
\* and one with a failed pull included, ends with status 1, and up to and
\* including a failed pull no step touches the containers.
C39_SuccessOnlyWhenCurrentOrHealthy ==
  /\ [](dep.pc = "exit" =>
          /\ dep.status \in {0, 1}
          /\ dep.status = 0 <=> (AlreadyOnPulledImage \/ dep.health1 = "ok")
          /\ dep.pull = "failed" => dep.ups = 0 /\ dep.rollbacks = 0)
  /\ [][dep.pc \in {"start", "backup", "pull"} => containers' = containers]_vars

\* the release failed its health check, the rollback brought the service
\* back, and the run ended with status 1
C39_Witness ==
  /\ dep.pc = "exit" /\ dep.status = 1
  /\ dep.health1 = "failed" /\ dep.rollbacks = 1 /\ dep.phase = "rollback"
  /\ ServiceRunning(containers)
  /\ dep.count < dep.timeout

\* a failed pull with the service running
C39_PullFailedWitness ==
  dep.pc = "exit" /\ dep.pull = "failed" /\ dep.is_running /\ ServiceRunning(containers)

\* ---------------------------------------------------------------- C40
\* C40: a call of updateContainer that found an update completes: once the
\* script it started has processed the containers of its run and begins
\* its sleep, the call has returned and the request has its result.
C40_UpdateCallCompletes ==
  pc["manual"] = "sleep" => web.pc = "done"

====
